---- MODULE Spec2Model ----
(***************************************************************************)
(* ANTgen: the activity/appliance synthesis engine.                        *)
(*                                                                         *)
(* Tools.py (bitmap utilities), ActivityModel.py (state-machine            *)
(* interpreter and slot scheduler), ApplianceModel.py and                  *)
(* LoadModelComponents.py (waveform synthesis), UserModel.py (user         *)
(* aggregator) and the synthesis part of antgen.py.                        *)
(*                                                                         *)
(* Time is scaled: a clock hour has mins_per_hour minutes of secs_per_min  *)
(* seconds and a day has hours_per_day hours (the source: 60, 60, 24, so   *)
(* secs_per_day = 86400).  Bit vectors (bitarray) and power arrays (numpy) *)
(* are functions on 0..n-1, indexed as in Python.  Python's None is None.  *)
(***************************************************************************)
EXTENDS Integers, Sequences, FiniteSets, TLC

(* ----------------------------- bounds --------------------------------- *)
hours_per_day == 2
MaxBits == 5
MaxBitmapDays == 7
MaxRanges == 2
RandDen == 4
FracDen == 4
MaxVisits == 3
MaxCursor == 6

(* ------------------------- program constants -------------------------- *)
mins_per_hour == 2
secs_per_min == 2
secs_per_day == hours_per_day * mins_per_hour * secs_per_min
None == -1
DefaultMin == 5
DefaultMax == 10
JitterMin == 5
JitterMax == 10
ProbeAttempts == 10
weekdays == [i \in 0..6 |-> <<"monday", "tuesday", "wednesday", "thursday",
                              "friday", "saturday", "sunday">>[i + 1]]

VARIABLES
    t_pc,       \* Tools: "call" before the function under study ran, "ret" after
    t_fn,       \* Tools: the function called
    t_arg,      \* Tools: the arguments as passed (a snapshot taken at the call)
    t_bitmap,   \* Tools: the caller's bitmap object (get_earliest, get_latest)
    t_ret,      \* Tools: the value returned
    appliances, \* antgen.main: appliance type -> ApplianceModel object
    ip_self,    \* process_model: the ActivityModel it runs on
    ip_varies,  \* process_model: its argument model_varies
    ip,         \* process_model: its locals, its position and what it returned
    pc,         \* the run: where the program is
    error,      \* the run: the uncaught exception that ended it, or "none"
    run,        \* antgen.main: days, first_day, vary_runs
    users,      \* antgen.main: the UserModel objects, in the order of [users]
    all_powers, \* antgen.main: name -> power array
    all_events, \* antgen.main: the event list
    uid,        \* antgen.main: the user being synthesized (index in users)
    order,      \* UserModel.synthesize: the shuffled activity names
    ai,         \* UserModel.synthesize: the activity being synthesized (index in order)
    act,        \* ActivityModel.synthesize: its locals
    twin,       \* the power arrays of a second run of the program with the same
                \* seed and inputs (all_powers, appliances, activity_power)
    committed,  \* history: the instances scheduled so far
    ops         \* history: the appliance operations synthesized so far

tvars == <<t_pc, t_fn, t_arg, t_bitmap, t_ret>>
ivars == <<ip_self, ip_varies, ip>>
rvars == <<pc, error, run, users, all_powers, all_events, uid, order, ai, act, twin,
           committed, ops>>
vars == <<tvars, appliances, ivars, rvars>>

(* ------------------------- Python primitives -------------------------- *)
Min2(a, b) == IF a <= b THEN a ELSE b
Max2(a, b) == IF a >= b THEN a ELSE b
SetMin(S) == CHOOSE x \in S : \A y \in S : x <= y
SetMax(S) == CHOOSE x \in S : \A y \in S : x >= y

\* len() of a bitarray or array
Size(b) == Cardinality(DOMAIN b)

\* bitarray(n) followed by setall(v); np.zeros for v = 0
Filled(n, v) == [i \in 0..(n - 1) |-> v]

\* a slice bound as Python normalises it for a sequence of length n
PyBound(i, n) == IF i < 0 THEN Max2(i + n, 0) ELSE Min2(i, n)

\* the indices b[lo:hi] covers
SliceIdx(b, lo, hi) ==
    {i \in DOMAIN b : PyBound(lo, Size(b)) <= i /\ i < PyBound(hi, Size(b))}

\* b[lo:hi] = v for a scalar v
SliceAssign(b, lo, hi, v) ==
    [i \in DOMAIN b |-> IF i \in SliceIdx(b, lo, hi) THEN v ELSE b[i]]

\* b[lo:hi].all()
SliceAll(b, lo, hi) == \A i \in SliceIdx(b, lo, hi) : b[i]

\* bitarray.count(True)
CountTrue(b) == Cardinality({i \in DOMAIN b : b[i]})

\* a & b on bitarrays of one length
BitAnd(a, b) == [i \in DOMAIN a |-> a[i] /\ b[i]]

\* bitarray.reverse()
Reversed(b) == [i \in DOMAIN b |-> b[Size(b) - 1 - i]]

(* ------------------------------ Tools.py ------------------------------ *)
(* A comma-separated time range is a sequence of sub-ranges as split(',')  *)
(* yields them.  A sub-range is a record: dash says whether it holds a     *)
(* '-', fr and to are the two clock values, each a record of colon         *)
(* (whether it holds a ':'), hr and mn (the integers either side of it).   *)

\* 60 * (int(hr) * 60 + int(mn)) with hr >= 24 taken as 24:00
clock_offset(c) ==
    IF c.hr >= hours_per_day
    THEN secs_per_min * (hours_per_day * mins_per_hour + 0)
    ELSE secs_per_min * (c.hr * mins_per_hour + c.mn)

\* mutant of timerange_step: the end of a sub-range taken as inclusive
timerange_step_inclusive(bmp, time_range) ==
    IF ~time_range.dash THEN bmp
    ELSE IF ~time_range.fr.colon \/ ~time_range.to.colon THEN bmp
    ELSE SliceAssign(bmp, clock_offset(time_range.fr), clock_offset(time_range.to) + 1, TRUE)

\* one pass of the loop over the sub-ranges
timerange_step(bmp, time_range) ==
    IF ~time_range.dash THEN bmp
    ELSE IF ~time_range.fr.colon \/ ~time_range.to.colon THEN bmp
    ELSE SliceAssign(bmp, clock_offset(time_range.fr), clock_offset(time_range.to), TRUE)

RECURSIVE timerange_loop(_, _, _)
timerange_loop(bmp, ranges, k) ==
    IF k > Len(ranges) THEN bmp
    ELSE timerange_loop(timerange_step(bmp, ranges[k]), ranges, k + 1)

get_bitmap_from_timerange(comma_separated_timerange) ==
    timerange_loop(Filled(secs_per_day, FALSE), comma_separated_timerange, 1)

(* A weekday list is a function from the weekday names it holds to their   *)
(* time ranges (a configuration section).                                  *)
\* mutant of weekday_block: a weekday without a time range keeps the day free
weekday_block_keeps_free(bmp, i, weekday_list, start_day) ==
    LET day == weekdays[(start_day + i) % 7]
        lo == i * secs_per_day
    IN  IF day \in DOMAIN weekday_list
        THEN [j \in DOMAIN bmp |->
                IF lo <= j /\ j < lo + secs_per_day
                THEN bmp[j] /\ get_bitmap_from_timerange(weekday_list[day])[j - lo]
                ELSE bmp[j]]
        ELSE bmp

weekday_block(bmp, i, weekday_list, start_day) ==
    LET day == weekdays[(start_day + i) % 7]
        lo == i * secs_per_day
    IN  IF day \in DOMAIN weekday_list
        THEN [j \in DOMAIN bmp |->
                IF lo <= j /\ j < lo + secs_per_day
                THEN bmp[j] /\ get_bitmap_from_timerange(weekday_list[day])[j - lo]
                ELSE bmp[j]]
        ELSE SliceAssign(bmp, lo, (i + 1) * secs_per_day, FALSE)

RECURSIVE weekday_loop(_, _, _, _, _)
weekday_loop(bmp, i, num_days, weekday_list, start_day) ==
    IF i >= num_days THEN bmp
    ELSE weekday_loop(weekday_block(bmp, i, weekday_list, start_day),
                      i + 1, num_days, weekday_list, start_day)

get_bitmap_from_weekday_list(weekday_list, num_days, start_day) ==
    weekday_loop(Filled(secs_per_day * num_days, TRUE), 0, num_days,
                 weekday_list, start_day)

\* mutant of get_earliest: the last true bit instead of the first
get_earliest_last(bitmap) ==
    IF \E i \in DOMAIN bitmap : bitmap[i]
    THEN SetMax({i \in DOMAIN bitmap : bitmap[i]})
    ELSE None

\* bitmap.index(True), None on ValueError
get_earliest(bitmap) ==
    IF \E i \in DOMAIN bitmap : bitmap[i]
    THEN SetMin({i \in DOMAIN bitmap : bitmap[i]})
    ELSE None

get_latest(bitmap) ==
    LET bmp == Reversed(bitmap)
        off == get_earliest(bmp)
    IN  IF off # None /\ off >= 0 THEN Size(bitmap) - off ELSE None

(* --------------------------- ApplianceModel.py ------------------------- *)
(* An ApplianceModel is a record: appliance_type; models, the model files  *)
(* of its folder, each a record of usual_duration and comps; model, the    *)
(* index of the file pick_another_model read last (self.usual_duration and *)
(* self.comps are those of that file); busy; total_power.                  *)
usual_duration(app) == app.models[app.model].usual_duration
comps(app) == app.models[app.model].comps

\* the objects pick_another_model can leave behind: random.choice of a file
pick_another_model(app) ==
    {[app EXCEPT !.model = m] : m \in 1..Len(app.models)}

\* ApplianceModel(type, model_dir, num_days) once constructed, file m picked
ApplianceModel(type, models, num_days, m) ==
    [appliance_type |-> type, models |-> models, model |-> m,
     busy |-> Filled(num_days * secs_per_day, FALSE),
     total_power |-> Filled(num_days * secs_per_day, 0)]

\* a load-model component: OnOffModel with its fraction (dur, in 1/FracDen) and onPower
OnOffModel(dur, on) == [type |-> "ON_OFF", dur |-> dur, on |-> on]

(* ------------------------ LoadModelComponents.py ----------------------- *)
(* Powers are integers.  A NoiseModel draws from numpy's generator, which  *)
(* the program never seeds: a sample is any value of low..high (what       *)
(* bound() lets through).                                                  *)
NoiseModel(dur, low, high) == [type |-> "NOISE", dur |-> dur, low |-> low, high |-> high]

\* c.synthesize(length): the sample vectors it can return
component_synthesize(c, length) ==
    IF c.type = "ON_OFF" THEN {[x \in 0..(length - 1) |-> c.on]}
    ELSE [0..(length - 1) -> c.low..c.high]

(* ---------------------- ApplianceModel.synthesize ---------------------- *)
\* round() of the fraction n / d, n >= 0: halves go to the even neighbour
RoundHalfEven(n, d) ==
    LET q == n \div d
        r == n % d
    IN  IF 2 * r < d THEN q
        ELSE IF 2 * r > d THEN q + 1
        ELSE IF q % 2 = 0 THEN q ELSE q + 1

\* a + b on arrays of one length
ArrayAdd(a, b) == [x \in DOMAIN a |-> a[x] + b[x]]

\* entry[lo:hi] += samples, the slice being as long as the samples or the
\* samples being one value
SliceAdd(entry, lo, hi, samples) ==
    [x \in DOMAIN entry |->
        IF x \in SliceIdx(entry, lo, hi)
        THEN entry[x] + (IF Size(samples) = 1 THEN samples[0] ELSE samples[x - lo])
        ELSE entry[x]]

\* mutant of comps_loop: a skipped component moves the start of the next one
RECURSIVE comps_loop_gaps(_, _, _, _, _, _)
comps_loop_gaps(cs, idx, start_offset, entry, offset, duration) ==
    IF idx > Len(cs) THEN {[error |-> "none", power |-> entry]}
    ELSE
    LET c == cs[idx]
        end_offset == start_offset + RoundHalfEven(c.dur * duration, FracDen)
        synth_len == end_offset - start_offset
        slice_len == Cardinality(SliceIdx(entry, offset + start_offset, offset + end_offset))
    IN  IF synth_len <= 0 \/ synth_len > secs_per_day
        THEN comps_loop_gaps(cs, idx + 1, end_offset, entry, offset, duration)
        ELSE IF slice_len # synth_len /\ synth_len # 1
        THEN {[error |-> "ValueError", power |-> entry]}
        ELSE UNION {comps_loop_gaps(cs, idx + 1, end_offset,
                                    SliceAdd(entry, offset + start_offset,
                                             offset + end_offset, smp),
                                    offset, duration) :
                      smp \in component_synthesize(c, synth_len)}

\* lines 94-106: the loop over the components from component idx on.  The
\* outcomes: this_cycle_power, or the ValueError numpy raises when the slice
\* (cut at the end of the array) and the samples differ in length
RECURSIVE comps_loop(_, _, _, _, _, _)
comps_loop(cs, idx, start_offset, entry, offset, duration) ==
    IF idx > Len(cs) THEN {[error |-> "none", power |-> entry]}
    ELSE
    LET c == cs[idx]
        end_offset == start_offset + RoundHalfEven(c.dur * duration, FracDen)
        synth_len == end_offset - start_offset
        slice_len == Cardinality(SliceIdx(entry, offset + start_offset, offset + end_offset))
    IN  IF synth_len <= 0 \/ synth_len > secs_per_day
        THEN comps_loop(cs, idx + 1, start_offset, entry, offset, duration)
        ELSE IF slice_len # synth_len /\ synth_len # 1
        THEN {[error |-> "ValueError", power |-> entry]}
        ELSE UNION {comps_loop(cs, idx + 1, end_offset,
                               SliceAdd(entry, offset + start_offset, offset + end_offset, smp),
                               offset, duration) :
                      smp \in component_synthesize(c, synth_len)}

\* this_cycle_power for one operation
cycle_powers(app, offset, duration) ==
    comps_loop(comps(app), 1, 0, Filled(Size(app.total_power), 0), offset, duration)

\* mutant of accumulate: the operation is not added to total_power
accumulate_busy_only(app, offset, duration, this_cycle_power) ==
    [app EXCEPT !.busy = SliceAssign(@, offset, offset + duration, TRUE)]

\* lines 108-109: the appliance after the operation
accumulate(app, offset, duration, this_cycle_power) ==
    [app EXCEPT !.total_power = ArrayAdd(@, this_cycle_power),
                !.busy = SliceAssign(@, offset, offset + duration, TRUE)]

(* ---------------------- ActivityModel.process_model -------------------- *)
(* An ActivityModel is a record: activity_type; appliance_lookup, device   *)
(* id -> appliance type (0 -> "None"); appliance_binding, appliance type   *)
(* -> whether an ApplianceModel is bound (the one of that type in          *)
(* appliances); state_machine, state id -> state row.  A state row is a    *)
(* record: nfields, the number of comma-separated fields; numeric, whether *)
(* the fields read as numbers convert; and the nine decoded fields.        *)
(* random.random() is a number u / RandDen with u in 0..RandDen-1, and a   *)
(* probability or rate is a multiple of 1 / RandDen.                       *)

\* the list comprehension and the unpacking of line 119 raise no ValueError
Decodes(cmd) == cmd.nfields >= 9 /\ cmd.numeric

\* schedule[key] = val on a dict kept in insertion order
DictPut(dict, key, val) ==
    IF \E k \in 1..Len(dict) : dict[k].key = key
    THEN [k \in 1..Len(dict) |->
            IF dict[k].key = key THEN [key |-> key, val |-> val] ELSE dict[k]]
    ELSE Append(dict, [key |-> key, val |-> val])

\* the locals at the first test of the loop condition
process_model_locals ==
    [status |-> "run", current_state |-> 0, total_duration |-> 0, schedule |-> <<>>,
     user_min_time |-> None, user_max_time |-> 0, visits |-> 0,
     state |-> None, draw |-> None]

\* mutant of null_result: the malformed row ends the state machine
null_result_done(st) == [st EXCEPT !.status = "done"]

\* return 0, None, 0, 0
null_result(st) ==
    [st EXCEPT !.status = "null", !.total_duration = 0, !.schedule = <<>>,
               !.user_min_time = 0, !.user_max_time = 0]

\* mutant of transition: the first successor is always taken
transition_first(cmd, u) == cmd.sa

\* mutant of transition: the draw compared with <= instead of <
transition_le(cmd, u) == IF u <= cmd.pa THEN cmd.sa ELSE cmd.sb

\* progress to next state
transition(cmd, u) == IF u < cmd.pa THEN cmd.sa ELSE cmd.sb

\* mutant of appliance_runtime: the usual duration of the appliance is not used
appliance_runtime_default(self, apps, cmd) ==
    IF cmd.mn = cmd.mx /\ cmd.mx = 0
    THEN DefaultMin..DefaultMax
    ELSE Min2(cmd.mn, cmd.mx)..Max2(cmd.mn, cmd.mx)

\* lines 128-138: the values appliance_runtime can take for the row cmd, whose
\* device is 0 or a bound appliance
appliance_runtime(self, apps, cmd) ==
    LET zero == cmd.mn = cmd.mx /\ cmd.mx = 0
        mn == IF zero /\ cmd.devID = 0 THEN DefaultMin ELSE cmd.mn
        mx == IF zero /\ cmd.devID = 0 THEN DefaultMax ELSE cmd.mx
    IN  IF mn = mx /\ mx = 0 /\ cmd.devID # 0
        THEN {usual_duration(apps[self.appliance_lookup[cmd.devID]])}
        ELSE Min2(mn, mx)..Max2(mn, mx)

\* mutant of advance: an appliance left running moves the cursor back
advance_back(cmd, runtime, jitter) ==
    IF cmd.devID # 0 /\ ~cmd.fin THEN 0 - jitter ELSE runtime

\* mutant of advance: the cursor always moves by the full duration
advance_full(cmd, runtime, jitter) == runtime

\* lines 145-155: what the pass adds to total_duration
advance(cmd, runtime, jitter) ==
    IF cmd.devID # 0
    THEN (IF cmd.fin THEN runtime ELSE jitter)
    ELSE runtime

\* mutant of first_user_time: every state that involves the user sets it
first_user_time_latest(st, cmd) ==
    IF cmd.usr THEN st.total_duration ELSE st.user_min_time

\* lines 125-126: user_min_time after the test of the row cmd
first_user_time(st, cmd) ==
    IF st.user_min_time = None /\ cmd.usr THEN st.total_duration ELSE st.user_min_time

\* the locals after one pass of the loop body, for one choice of the draws
state_pass(self, apps, st, cmd, runtime, jitter, u) ==
    LET user_min_time == first_user_time(st, cmd)
        schedule == IF cmd.devID # 0
                    THEN DictPut(st.schedule, st.total_duration,
                                 [app |-> self.appliance_lookup[cmd.devID], dur |-> runtime])
                    ELSE st.schedule
        total_duration == st.total_duration + advance(cmd, runtime, jitter)
    IN  [status |-> "run",
         current_state |-> transition(cmd, u),
         total_duration |-> total_duration,
         schedule |-> schedule,
         user_min_time |-> user_min_time,
         user_max_time |-> IF cmd.usr THEN total_duration ELSE st.user_max_time,
         visits |-> st.visits + 1,
         state |-> st.current_state,
         draw |-> u]

\* the outcomes of one pass of the loop body: the locals after it, or the
\* exception it ends with
process_state(self, apps, st) ==
    IF st.current_state \notin DOMAIN self.state_machine
    THEN {[st EXCEPT !.status = "AttributeError"]}
    ELSE
    LET cmd == self.state_machine[st.current_state] IN
    IF ~Decodes(cmd) THEN {null_result(st)}
    ELSE IF cmd.devID \notin DOMAIN self.appliance_lookup
    THEN {[st EXCEPT !.status = "KeyError"]}
    ELSE
    LET type == self.appliance_lookup[cmd.devID]
    IN  IF cmd.devID # 0 /\ ~self.appliance_binding[type]
        THEN {[st EXCEPT !.status = "AttributeError"]}
        ELSE
        LET jitters == IF cmd.devID # 0 /\ ~cmd.fin THEN JitterMin..JitterMax ELSE {0}
        IN  {state_pass(self, apps, st, cmd, runtime, jitter, u) :
                runtime \in appliance_runtime(self, apps, cmd),
                jitter \in jitters, u \in 0..(RandDen - 1)}

\* mutant of loop_continues: the index equal to the state count is run too
loop_continues_le(self, st) == st.current_state <= Cardinality(DOMAIN self.state_machine)

\* the loop condition: current_state < len(self.state_machine)
loop_continues(self, st) == st.current_state < Cardinality(DOMAIN self.state_machine)

\* every way the loop can end from st within the visits left: a return
\* ("done", "null") or an exception
RECURSIVE process_model_loop(_, _, _)
process_model_loop(self, apps, st) ==
    IF st.status # "run" THEN {st}
    ELSE IF ~loop_continues(self, st) THEN {[st EXCEPT !.status = "done"]}
    ELSE IF st.visits >= MaxVisits THEN {}
    ELSE UNION {process_model_loop(self, apps, s2) : s2 \in process_state(self, apps, st)}

(* ----------------------- ActivityModel.synthesize ---------------------- *)
(* A daily rate is a multiple of 1 / RandDen, given by its numerator.      *)

\* d[k] = v on a dict
DictSet(d, k, v) == [x \in DOMAIN d \cup {k} |-> IF x = k THEN v ELSE d[x]]

\* lines 202-205: reps for the draw u / RandDen
draw_reps(runs_per_day, u) ==
    IF runs_per_day >= RandDen
    THEN RoundHalfEven(2 * (runs_per_day + u) - RandDen, 2 * RandDen)
    ELSE IF u > runs_per_day THEN 0 ELSE 1

\* lines 208-210
day_filter(num_days, d) ==
    SliceAssign(Filled(num_days * secs_per_day, FALSE),
                d * secs_per_day, (d + 1) * secs_per_day, TRUE)

\* mutant of availability_of: the user's availability is left out
availability_of_anyone(user_available, time_of_run, filter, user_earliest) ==
    BitAnd(time_of_run, filter)

\* lines 230-233
availability_of(user_available, time_of_run, filter, user_earliest) ==
    IF user_earliest # None
    THEN BitAnd(BitAnd(user_available, time_of_run), filter)
    ELSE BitAnd(time_of_run, filter)

\* line 241: the day cannot take the activity
cannot_fit(earliest_start, latest_start, duration) ==
    \/ earliest_start = None
    \/ latest_start = None
    \/ earliest_start > latest_start + 1 - duration

\* lines 254-256: the snippet is all free and ends inside the horizon
fits(availability, starting_time, duration, horizon) ==
    /\ SliceAll(availability, starting_time, starting_time + duration)
    /\ starting_time + duration <= horizon

\* lines 251-259: what starting_time can be after `attempts` more probes, each
\* a random.randint(earliest_start, latest_start + 1 - duration); -1 = none fits
RECURSIVE probe(_, _, _, _, _, _)
probe(availability, earliest_start, latest_start, duration, horizon, attempts) ==
    LET range == earliest_start..(latest_start + 1 - duration)
        good == {t \in range : fits(availability, t, duration, horizon)}
    IN  IF attempts = 0 THEN {-1}
        ELSE good \cup (IF good # range
                        THEN probe(availability, earliest_start, latest_start, duration,
                                   horizon, attempts - 1)
                        ELSE {})

\* mutant of exhaustive: the scan stops one offset earlier
exhaustive_short(availability, earliest_start, latest_start, duration, horizon) ==
    LET range == earliest_start..(latest_start - duration - 1)
        good == {t \in range : fits(availability, t, duration, horizon)}
    IN  IF good # {} THEN SetMin(good) ELSE -1

\* mutant of exhaustive: the scan keeps the last offset that fits
exhaustive_last(availability, earliest_start, latest_start, duration, horizon) ==
    LET range == earliest_start..(latest_start - duration)
        good == {t \in range : fits(availability, t, duration, horizon)}
    IN  IF good # {} THEN SetMax(good) ELSE -1

\* lines 262-268: for starting_time in range(earliest_start, latest_start + 1 - duration)
exhaustive(availability, earliest_start, latest_start, duration, horizon) ==
    LET range == earliest_start..(latest_start - duration)
        good == {t \in range : fits(availability, t, duration, horizon)}
    IN  IF good # {} THEN SetMin(good) ELSE -1

\* lines 248-268: the starting times the search can end with, and whether the
\* exhaustive scan gave it (scanned)
find_start(availability, earliest_start, latest_start, duration, horizon) ==
    LET probed == probe(availability, earliest_start, latest_start, duration, horizon,
                        ProbeAttempts)
    IN  {[starting_time |-> t, scanned |-> FALSE] : t \in probed \ {-1}} \cup
        (IF -1 \in probed
         THEN {[starting_time |-> exhaustive(availability, earliest_start, latest_start,
                                             duration, horizon),
                scanned |-> TRUE]}
         ELSE {})

\* mutant of mark_time_of_run: the window is not marked
mark_nothing(time_of_run, starting_time, duration) == time_of_run

\* mutant of mark_time_of_run: the window is marked in a fresh bitmap
mark_time_of_run_fresh(time_of_run, starting_time, duration) ==
    SliceAssign(Filled(Size(time_of_run), TRUE), starting_time, starting_time + duration,
                FALSE)

\* line 289: time_of_run[starting_time:starting_time + duration] = False
mark_time_of_run(time_of_run, starting_time, duration) ==
    SliceAssign(time_of_run, starting_time, starting_time + duration, FALSE)

\* mutant of mark_user_busy: the user is never marked busy
mark_user_busy_never(user_available, starting_time, user_earliest, user_latest) ==
    user_available

\* mutant of mark_user_busy: the user is busy from the start of the window
mark_user_busy_from_start(user_available, starting_time, user_earliest, user_latest) ==
    IF user_earliest # None /\ user_latest > 0
    THEN SliceAssign(user_available, starting_time, starting_time + user_latest, FALSE)
    ELSE user_available

\* lines 279-283
mark_user_busy(user_available, starting_time, user_earliest, user_latest) ==
    IF user_earliest # None /\ user_latest > 0
    THEN SliceAssign(user_available, starting_time + user_earliest,
                     starting_time + user_latest, FALSE)
    ELSE user_available

\* "{};ACT|DEV;{};{}".format(offset, name, transition)
Event(offset, kind, name, tr) ==
    [offset |-> offset, kind |-> kind, name |-> name, transition |-> tr]

(* The part of the program state one scheduled sub-operation changes: st   *)
(* holds events, activity_power, powers, appliances, final, the exception  *)
(* raised (error) and ops, the record of the operations synthesized.       *)

\* lines 299-306 for one entry of the schedule and one this_cycle_power
run_entry(self, st, starting_time, e, cyc) ==
    LET type == e.val.app
        on_offset == starting_time + e.key
        off_offset == starting_time + e.key + e.val.dur - 1
        app == st.appliances[type]
    IN  IF cyc.error # "none"
        THEN [st EXCEPT !.events = Append(@, Event(on_offset, "DEV", app.appliance_type, "ON")),
                        !.error = cyc.error]
        ELSE [st EXCEPT
                !.events = @ \o <<Event(on_offset, "DEV", app.appliance_type, "ON"),
                                  Event(off_offset, "DEV", app.appliance_type, "OFF")>>,
                !.activity_power = ArrayAdd(@, cyc.power),
                !.powers[self.activity_type] = ArrayAdd(@, cyc.power),
                !.appliances[type] = accumulate(app, on_offset, e.val.dur, cyc.power),
                !.final = IF off_offset > @ THEN off_offset ELSE @,
                !.ops = Append(@, [app |-> type, comps |-> comps(app), offset |-> on_offset,
                                   duration |-> e.val.dur, power |-> cyc.power,
                                   activity |-> self.activity_type])]

\* lines 297-307: the loop over the schedule from entry k on
RECURSIVE run_schedule(_, _, _, _, _)
run_schedule(self, schedule, k, starting_time, st) ==
    IF k > Len(schedule) \/ st.error # "none" THEN {st}
    ELSE UNION {run_schedule(self, schedule, k + 1, starting_time,
                             run_entry(self, st, starting_time, schedule[k], cyc)) :
                  cyc \in cycle_powers(st.appliances[schedule[k].val.app],
                                       starting_time + schedule[k].key,
                                       schedule[k].val.dur)}

\* lines 295-308: the events and powers of one scheduled instance
emit(self, schedule, starting_time, st) ==
    LET begun == [st EXCEPT !.events = Append(@, Event(starting_time, "ACT",
                                                        self.activity_type, "START")),
                            !.final = 0]
    IN  {IF x.error # "none" THEN x
         ELSE [x EXCEPT !.events = Append(@, Event(x.final, "ACT", self.activity_type, "END"))] :
            x \in run_schedule(self, schedule, 1, starting_time, begun)}

(* --------------------- SpecTools: the bitmap utilities ----------------- *)
Bitmaps == UNION {[0..(n - 1) -> BOOLEAN] : n \in 0..MaxBits}
\* the bitmap of length 10 with bits 3, 4 and 5 set
Bitmap345 == [i \in 0..9 |-> i \in 3..5]

Clocks ==
    [colon : {TRUE}, hr : 0..(hours_per_day + 1), mn : 0..mins_per_hour]
        \cup {[colon |-> FALSE, hr |-> 0, mn |-> 0]}
SubRanges ==
    [dash : {TRUE}, fr : Clocks, to : Clocks]
        \cup {[dash |-> FALSE, fr |-> [colon |-> FALSE, hr |-> 0, mn |-> 0],
                               to |-> [colon |-> FALSE, hr |-> 0, mn |-> 0]]}
\* the sub-ranges tried in specs of two sub-ranges or more
PairRanges ==
    {r \in SubRanges : r.dash => /\ r.fr.colon /\ r.to.colon
                                  /\ r.fr.hr <= 1 /\ r.fr.mn <= 1
                                  /\ r.to.hr \in {0, hours_per_day} /\ r.to.mn = 0}
TimeRanges ==
    UNION {[1..n -> SubRanges] : n \in 0..1}
        \cup UNION {[1..n -> PairRanges] : n \in 2..MaxRanges}

Clock(h, m) == [colon |-> TRUE, hr |-> h, mn |-> m]
Range(fh, fm, th, tm) == <<[dash |-> TRUE, fr |-> Clock(fh, fm), to |-> Clock(th, tm)]>>
\* the weekday lists tried: none, one day, two days, every day
WeekdayLists ==
    {[d \in D |-> Range(0, 1, 1, 1)] : D \in {{}, {"monday"}, {"sunday", "tuesday"}}}
        \cup {[d \in {"monday", "friday"} |-> IF d = "monday" THEN Range(0, 0, 1, 0)
                                                 ELSE Range(1, 0, hours_per_day, 0)]}
        \cup {[d \in {weekdays[i] : i \in 0..6} |-> Range(0, 0, hours_per_day, 0)]}

ToolsIdle ==
    /\ t_pc = "idle" /\ t_fn = "none" /\ t_arg = <<>> /\ t_bitmap = <<>> /\ t_ret = None

InterpIdle ==
    /\ ip_self = <<>> /\ ip_varies = FALSE /\ ip = [status |-> "idle"]

RunIdle ==
    /\ pc = "idle" /\ error = "none" /\ run = <<>> /\ users = <<>>
    /\ all_powers = <<>> /\ all_events = <<>> /\ uid = 0 /\ order = <<>> /\ ai = 0
    /\ act = <<>> /\ twin = <<>> /\ committed = <<>> /\ ops = <<>>

ToolsInit ==
    /\ InterpIdle
    /\ RunIdle
    /\ appliances = <<>>
    /\ t_pc = "call"
    /\ t_ret = None
    /\ \/ /\ t_fn \in {"get_earliest", "get_latest"}
          /\ t_bitmap \in Bitmaps \cup {Bitmap345}
          /\ t_arg = t_bitmap
       \/ /\ t_fn = "get_bitmap_from_timerange"
          /\ t_arg \in TimeRanges
          /\ t_bitmap = <<>>
       \/ /\ t_fn = "get_bitmap_from_weekday_list"
          /\ t_arg \in [weekday_list : WeekdayLists, num_days : 0..MaxBitmapDays,
                        start_day : 0..6]
          /\ t_bitmap = <<>>

CallGetEarliest ==
    /\ t_pc = "call" /\ t_fn = "get_earliest"
    /\ t_ret' = get_earliest(t_bitmap)
    /\ t_pc' = "ret"
    /\ UNCHANGED <<t_fn, t_arg, t_bitmap, appliances, ivars, rvars>>

CallGetLatest ==
    /\ t_pc = "call" /\ t_fn = "get_latest"
    /\ t_ret' = get_latest(t_bitmap)
    /\ t_pc' = "ret"
    /\ UNCHANGED <<t_fn, t_arg, t_bitmap, appliances, ivars, rvars>>

CallTimerange ==
    /\ t_pc = "call" /\ t_fn = "get_bitmap_from_timerange"
    /\ t_ret' = get_bitmap_from_timerange(t_arg)
    /\ t_pc' = "ret"
    /\ UNCHANGED <<t_fn, t_arg, t_bitmap, appliances, ivars, rvars>>

CallWeekdayList ==
    /\ t_pc = "call" /\ t_fn = "get_bitmap_from_weekday_list"
    /\ t_ret' = get_bitmap_from_weekday_list(t_arg.weekday_list, t_arg.num_days,
                                             t_arg.start_day)
    /\ t_pc' = "ret"
    /\ UNCHANGED <<t_fn, t_arg, t_bitmap, appliances, ivars, rvars>>

ToolsNext == CallGetEarliest \/ CallGetLatest \/ CallTimerange \/ CallWeekdayList

SpecTools == ToolsInit /\ [][ToolsNext]_vars

(* ------------------- SpecInterp: process_model alone ------------------- *)
Row(mn, mx, usr, fin, devID, pa, sa, sb) ==
    [nfields |-> 9, numeric |-> TRUE, mn |-> mn, mx |-> mx, usr |-> usr, fin |-> fin,
     devID |-> devID, pa |-> pa, sa |-> sa, sb |-> sb]
\* a row with a field missing, and one whose duration is not a number
ShortRow == [Row(1, 1, FALSE, TRUE, 0, RandDen, 1, 1) EXCEPT !.nfields = 8]
BadRow == [Row(1, 1, FALSE, TRUE, 0, RandDen, 1, 1) EXCEPT !.numeric = FALSE]

\* the first rows tried: device 1 is bound, device 2 is in no [devices] entry;
\* two more rows lead back to state 0, and one runs the kettle for 0 or 1 second
FirstRows ==
    {Row(d[1], d[2], usr, fin, devID, pa, 1, 2) :
        d \in {<<0, 0>>, <<2, 1>>}, usr \in BOOLEAN, fin \in BOOLEAN,
        devID \in {0, 1, 2}, pa \in {0, RandDen \div 2, RandDen}}
    \cup {Row(1, 1, TRUE, TRUE, 1, RandDen \div 2, 0, 1),
          Row(0, 0, FALSE, FALSE, 1, RandDen \div 2, 2, 0),
          Row(0, 1, FALSE, TRUE, 1, RandDen, 1, 1),
          ShortRow, BadRow}
\* the last of them has a duration below zero, which int() reads as it stands
SecondRows ==
    {Row(0, 0, TRUE, TRUE, 1, RandDen, 2, 2), Row(1, 1, FALSE, FALSE, 1, 0, 0, 2), BadRow,
     Row(0 - 2, 0 - 2, FALSE, TRUE, 0, RandDen, 2, 2)}

InterpModels == <<[usual_duration |-> 2, comps |-> <<OnOffModel(FracDen, 60)>>],
                  [usual_duration |-> 0, comps |-> <<OnOffModel(FracDen, 40)>>]>>
InterpAppliances == [t \in {"kettle"} |-> ApplianceModel(t, InterpModels, 1, 1)]

InterpActivities ==
    {[activity_type |-> "tea",
      appliance_lookup |-> (0 :> "None") @@ (1 :> "kettle"),
      appliance_binding |-> [t \in {"kettle"} |-> TRUE],
      state_machine |-> (0 :> r0) @@ (id :> r1)] :
        r0 \in FirstRows, r1 \in SecondRows, id \in {1, 2}}

InterpInit ==
    /\ ToolsIdle
    /\ RunIdle
    /\ appliances = InterpAppliances
    /\ ip_self \in InterpActivities
    /\ ip_varies \in BOOLEAN
    /\ ip = [process_model_locals EXCEPT !.status = "entry"]

\* mutant of vary_models: every appliance of the run picks another model
vary_models_all(self, apps) ==
    {f \in [DOMAIN apps -> UNION {pick_another_model(apps[t]) : t \in DOMAIN apps}] :
        \A t \in DOMAIN apps : f[t] \in pick_another_model(apps[t])}

\* for dev in self.appliance_binding.values(): dev.pick_another_model()
vary_models(self, apps) ==
    {f \in [DOMAIN apps -> UNION {pick_another_model(apps[t]) : t \in DOMAIN apps}] :
        \A t \in DOMAIN apps :
            IF t \in DOMAIN self.appliance_binding /\ self.appliance_binding[t]
            THEN f[t] \in pick_another_model(apps[t])
            ELSE f[t] = apps[t]}

\* lines 100-112: the locals are set and, if asked, the models are varied
ProcessModelEnter ==
    /\ ip.status = "entry"
    /\ appliances' \in (IF ip_varies THEN vary_models(ip_self, appliances) ELSE {appliances})
    /\ ip' = process_model_locals
    /\ UNCHANGED <<tvars, rvars, ip_self, ip_varies>>

\* lines 113-166: one pass of the loop
ProcessModelState ==
    /\ ip.status = "run"
    /\ loop_continues(ip_self, ip)
    /\ ip.visits < MaxVisits
    /\ ip' \in process_state(ip_self, appliances, ip)
    /\ UNCHANGED <<tvars, rvars, appliances, ip_self, ip_varies>>

\* lines 167-177: the loop condition fails and the result is returned
ProcessModelReturn ==
    /\ ip.status = "run"
    /\ ~loop_continues(ip_self, ip)
    /\ ip' = [ip EXCEPT !.status = "done"]
    /\ UNCHANGED <<tvars, rvars, appliances, ip_self, ip_varies>>

InterpNext == ProcessModelEnter \/ ProcessModelState \/ ProcessModelReturn

SpecInterp == InterpInit /\ [][InterpNext]_vars

(* ------------- SpecWalk: process_model under fair draws ---------------- *)
(* The walk of process_model with nothing that bounds its length: the      *)
(* cursor and the user bounds are kept up to MaxCursor and the count of    *)
(* visits up to MaxVisits, the position of the walk is kept exactly.       *)

\* rows that lead back to a state already visited, with and without a way out
WalkFirstRows ==
    {Row(1, 1, TRUE, TRUE, 1, RandDen \div 2, 0, 1),
     Row(0, 0, FALSE, FALSE, 1, RandDen \div 2, 2, 0),
     Row(1, 1, FALSE, TRUE, 0, RandDen, 0, 0),
     Row(2, 1, TRUE, FALSE, 1, 0, 1, 2)}
WalkSecondRows ==
    {Row(0, 0, TRUE, TRUE, 1, RandDen, 2, 2),
     Row(1, 1, FALSE, TRUE, 0, RandDen \div 2, 0, 1),
     Row(1, 1, FALSE, FALSE, 1, RandDen, 0, 2)}

WalkActivities ==
    {[activity_type |-> "tea",
      appliance_lookup |-> (0 :> "None") @@ (1 :> "kettle"),
      appliance_binding |-> [t \in {"kettle"} |-> TRUE],
      state_machine |-> (0 :> r0) @@ (id :> r1)] :
        r0 \in WalkFirstRows, r1 \in WalkSecondRows, id \in {1, 2}}

\* the state ids of the definitions walked that the loop can decode
WalkStates ==
    UNION {{s \in DOMAIN a.state_machine : s < Cardinality(DOMAIN a.state_machine)} :
              a \in WalkActivities}

WalkInit ==
    /\ ToolsIdle
    /\ RunIdle
    /\ appliances = InterpAppliances
    /\ ip_self \in WalkActivities
    /\ ip_varies \in BOOLEAN
    /\ ip = [process_model_locals EXCEPT !.status = "entry"]

\* the locals with the cursor, the user bounds and the visits kept up to
\* their bounds
Capped(st) ==
    [st EXCEPT !.total_duration = Min2(@, MaxCursor),
               !.user_min_time = IF @ = None THEN None ELSE Min2(@, MaxCursor),
               !.user_max_time = Min2(@, MaxCursor),
               !.visits = Min2(@, MaxVisits)]

\* lines 113-166: one pass of the loop at state s whose random.random() falls
\* below pa (first) or not (a pass that returns or raises before line 163
\* draws nothing)
WalkStep(s, first) ==
    /\ ip.status = "run"
    /\ loop_continues(ip_self, ip)
    /\ ip.current_state = s
    /\ \E x \in process_state(ip_self, appliances, ip) :
          /\ x.status = "run" => (first <=> x.draw < ip_self.state_machine[s].pa)
          /\ ip' = Capped(x)
    /\ UNCHANGED <<tvars, rvars, appliances, ip_self, ip_varies>>

WalkPass == \E s \in WalkStates, first \in BOOLEAN : WalkStep(s, first)

WalkNext == ProcessModelEnter \/ WalkPass \/ ProcessModelReturn

\* the loop always goes on to its next pass, and random.random() is fair: at
\* a state visited again and again the draw falls on either side of pa again
\* and again, when it can
WalkFair ==
    /\ WF_vars(ProcessModelEnter)
    /\ WF_vars(ProcessModelReturn)
    /\ \A s \in WalkStates, first \in BOOLEAN : SF_vars(WalkStep(s, first))

SpecWalk == WalkInit /\ [][WalkNext]_vars /\ WalkFair

(* ------------------------ Spec: one run of antgen ---------------------- *)
(* The state after main has built and bound every object (lines 166-238).  *)

\* UserModel(model_file, num_days, start_day) once constructed.  activities
\* maps an activity name to its ActivityModel, its daily_runs and the section
\* of its legal weekday ranges; presence keeps config['presence'] as read
UserModel(name, presence, activities, num_days, start_day) ==
    [name |-> name,
     days |-> num_days,
     presence |-> presence,
     availability |-> get_bitmap_from_weekday_list(presence, num_days, start_day),
     activities |-> [a \in DOMAIN activities |-> activities[a].model],
     runs_per_day |-> [a \in DOMAIN activities |-> activities[a].daily_runs],
     possible_runtimes |-> [a \in DOMAIN activities |->
        get_bitmap_from_weekday_list(activities[a].legal, num_days, start_day)]]

\* mutant of all_bindings_satisfied: the bindings are not looked at
all_bindings_ignored(self) == TRUE

\* all_bindings_satisfied()
all_bindings_satisfied(self) ==
    \A t \in DOMAIN self.appliance_binding : self.appliance_binding[t]

\* the locals of ActivityModel.synthesize at line 195
synthesize_locals(num_days) ==
    [activity_power |-> Filled(num_days * secs_per_day, 0),
     scheduling_failures |-> 0, scheduling_success |-> 0,
     d |-> 0, reps |-> 0, r |-> 0, scheduled_activities |-> 0,
     last |-> [kind |-> "none"]]

\* what the last pass of the loop over the repetitions did (history, kept in
\* act.last): kind is "null" (line 217), "nofit" (line 241), "nowindow" (line
\* 270), "committed" (line 275) or "raised"
Pass(kind, res, availability, earliest_start, latest_start, found) ==
    [kind |-> kind, duration |-> res.total_duration,
     user_earliest |-> res.user_min_time, user_latest |-> res.user_max_time,
     availability |-> availability,
     earliest_start |-> earliest_start, latest_start |-> latest_start,
     starting_time |-> found.starting_time, scanned |-> found.scanned]

\* mutant of count_failure: the failure is always counted
count_failure_always(time_of_run, filter) == 1

\* lines 243-244: the failure is counted if the day has a legal second at all
count_failure(time_of_run, filter) ==
    IF CountTrue(BitAnd(time_of_run, filter)) > 0 THEN 1 ELSE 0

\* mutant of abandon_day: the loop goes on to the next repetition
abandon_day_retries(b, failures, last) ==
    [b EXCEPT !.act.scheduling_failures = @ + failures, !.act.r = @ + 1,
              !.act.last = last]

\* mutant of abandon_day: the event list is emptied as well
abandon_day_forgets(b, failures, last) ==
    [b EXCEPT !.pc = "dayend", !.act.scheduling_failures = @ + failures,
              !.act.last = last, !.all_events = <<>>]

\* lines 219-220, 244-245, 272-273: failures are counted and the loop is left
abandon_day(b, failures, last) ==
    [b EXCEPT !.pc = "dayend", !.act.scheduling_failures = @ + failures,
              !.act.last = last]

\* the orders sorted(..., key=lambda x: random.random()) can give
Shuffles(S) ==
    {q \in [1..Cardinality(S) -> S] : \A a \in S : \E k \in DOMAIN q : q[k] = a}

\* the models of `to` as picked in `from`
SameModels(to, from) == [t \in DOMAIN to |-> [to[t] EXCEPT !.model = from[t].model]]

\* UserModel.synthesize lines 98-107, called from antgen.main line 247
UserEnter ==
    /\ pc = "main"
    /\ uid <= Len(users)
    /\ LET zeros == Filled(users[uid].days * secs_per_day, 0)
       IN  /\ all_powers' = DictSet(all_powers, users[uid].name, zeros)
           /\ twin' = [twin EXCEPT !.all_powers = DictSet(@, users[uid].name, zeros)]
    /\ order' \in Shuffles(DOMAIN users[uid].activities)
    /\ ai' = 1
    /\ pc' = "user"
    /\ UNCHANGED <<tvars, ivars, appliances, error, run, users, all_events, uid, act,
                   committed, ops>>

\* ActivityModel.synthesize lines 181-195, called from UserModel.synthesize line 110
ActivityEnter ==
    /\ pc = "user"
    /\ ai <= Len(order)
    /\ LET self == users[uid].activities[order[ai]]
           zeros == Filled(users[uid].days * secs_per_day, 0)
           fresh(p) == IF self.activity_type \notin DOMAIN p
                       THEN DictSet(p, self.activity_type, zeros) ELSE p
       IN  /\ act' = synthesize_locals(users[uid].days)
           /\ IF all_bindings_satisfied(self)
              THEN /\ all_powers' = fresh(all_powers)
                   /\ twin' = [twin EXCEPT !.all_powers = fresh(@),
                                           !.activity_power = zeros]
                   /\ pc' = "day"
              ELSE /\ all_powers' = all_powers
                   /\ twin' = [twin EXCEPT !.activity_power = zeros]
                   /\ pc' = "return"
    /\ UNCHANGED <<tvars, ivars, appliances, error, run, users, all_events, uid, order,
                   ai, committed, ops>>

\* lines 198-213: a day begins and reps is drawn
DayBegin ==
    /\ pc = "day"
    /\ act.d < users[uid].days
    /\ \E u \in 0..(RandDen - 1) :
          act' = [act EXCEPT !.reps = draw_reps(users[uid].runs_per_day[order[ai]], u),
                             !.r = 0, !.scheduled_activities = 0]
    /\ pc' = "attempt"
    /\ UNCHANGED <<tvars, ivars, appliances, error, run, users, all_powers, all_events,
                   uid, order, ai, twin, committed, ops>>

\* lines 214-308: one pass of the loop over the repetitions.  The value is the
\* set of states the pass can end in, each a record of the variables it changes
attempt_results ==
    LET user == users[uid]
        name == order[ai]
        self == user.activities[name]
        time_of_run == user.possible_runtimes[name]
        user_available == user.availability
        horizon == user.days * secs_per_day
        none == [starting_time |-> -1, scanned |-> FALSE]
        base == [pc |-> "attempt", error |-> "none", users |-> users,
                 appliances |-> appliances, all_powers |-> all_powers,
                 all_events |-> all_events, act |-> act, twin |-> twin,
                 committed |-> committed, ops |-> ops]
        \* lines 276-308 for the start found
        scheduled(b, res, last) ==
            LET starting_time == last.starting_time
                st == [events |-> all_events, activity_power |-> act.activity_power,
                       powers |-> all_powers, appliances |-> b.appliances,
                       final |-> 0, error |-> "none", ops |-> ops]
                st2 == [st EXCEPT !.activity_power = b.twin.activity_power,
                                  !.powers = b.twin.all_powers,
                                  !.appliances = b.twin.appliances]
                marked == [users EXCEPT
                    ![uid].availability = mark_user_busy(@, starting_time,
                                              res.user_min_time, res.user_max_time),
                    ![uid].possible_runtimes[name] =
                        mark_time_of_run(@, starting_time, res.total_duration)]
            IN  {[b EXCEPT
                    !.pc = IF x.error # "none" THEN "crashed" ELSE "attempt",
                    !.error = x.error,
                    !.users = marked,
                    !.appliances = x.appliances,
                    !.all_powers = x.powers,
                    !.all_events = x.events,
                    !.act = [act EXCEPT !.scheduled_activities = @ + 1,
                                        !.r = @ + 1,
                                        !.activity_power = x.activity_power,
                                        !.last = last],
                    !.twin = [all_powers |-> y.powers, appliances |-> y.appliances,
                              activity_power |-> y.activity_power],
                    !.ops = x.ops,
                    !.committed = Append(@,
                        [uid |-> uid, name |-> name, d |-> act.d,
                         starting_time |-> starting_time,
                         duration |-> res.total_duration,
                         user_earliest |-> res.user_min_time,
                         user_latest |-> res.user_max_time,
                         schedule |-> res.schedule,
                         first_event |-> Len(all_events) + 1,
                         last_event |-> Len(x.events)])] :
                  x \in emit(self, res.schedule, starting_time, st),
                  y \in emit(self, res.schedule, starting_time, st2)}
        \* lines 229-273 for the schedule returned
        placed(b, res) ==
            LET filter == day_filter(user.days, act.d)
                availability == availability_of(user_available, time_of_run, filter,
                                                res.user_min_time)
                earliest_start == get_earliest(availability)
                latest_start == get_latest(availability)
                pass(kind, found) ==
                    Pass(kind, res, availability, earliest_start, latest_start, found)
            IN  IF cannot_fit(earliest_start, latest_start, res.total_duration)
                THEN {abandon_day(b, count_failure(time_of_run, filter),
                                  pass("nofit", none))}
                ELSE UNION {IF found.starting_time = -1
                            THEN {abandon_day(b, 1, pass("nowindow", found))}
                            ELSE scheduled(b, res, pass("committed", found)) :
                              found \in find_start(availability, earliest_start,
                                  latest_start, res.total_duration, horizon)}
        \* lines 215-220 for the appliances as process_model left them
        interpreted(apps) ==
            LET b == [base EXCEPT !.appliances = apps,
                                  !.twin.appliances = SameModels(@, apps)]
            IN  UNION {IF res.status = "null"
                       THEN {abandon_day(b, act.reps, [kind |-> "null"])}
                       ELSE IF res.status # "done"
                       THEN {[b EXCEPT !.pc = "crashed", !.error = res.status,
                                       !.act.last = [kind |-> "raised"]]}
                       ELSE placed(b, res) :
                         res \in process_model_loop(self, apps, process_model_locals)}
    IN  UNION {interpreted(apps) :
                 apps \in IF run.vary_runs THEN vary_models(self, appliances)
                          ELSE {appliances}}

Attempt ==
    /\ pc = "attempt"
    /\ act.r < act.reps
    /\ \E x \in attempt_results :
          /\ pc' = x.pc
          /\ error' = x.error
          /\ users' = x.users
          /\ appliances' = x.appliances
          /\ all_powers' = x.all_powers
          /\ all_events' = x.all_events
          /\ act' = x.act
          /\ twin' = x.twin
          /\ committed' = x.committed
          /\ ops' = x.ops
    /\ UNCHANGED <<tvars, ivars, run, uid, order, ai>>

\* lines 312-316: the day ends, after the last repetition or a break
DayEnd ==
    /\ IF pc = "dayend" THEN TRUE ELSE pc = "attempt" /\ act.r >= act.reps
    /\ act' = [act EXCEPT !.scheduling_success = @ + act.scheduled_activities,
                          !.d = @ + 1, !.last = [kind |-> "none"]]
    /\ pc' = "day"
    /\ UNCHANGED <<tvars, ivars, appliances, error, run, users, all_powers, all_events,
                   uid, order, ai, twin, committed, ops>>

\* a tally that adds the activity's power to the user's array only
tally_user_only(p, name, total) ==
    [p EXCEPT ![name] = ArrayAdd(@, total)]

\* UserModel.synthesize lines 112-113: the power an activity returned joins the
\* array of the user and the total
tally(p, name, total) ==
    LET p1 == [p EXCEPT ![name] = ArrayAdd(@, total)]
    IN  [p1 EXCEPT !["total"] = ArrayAdd(@, total)]

\* lines 319-326, then UserModel.synthesize lines 112-113
ActivityReturn ==
    /\ IF pc = "return" THEN TRUE ELSE pc = "day" /\ act.d >= users[uid].days
    /\ all_powers' = tally(all_powers, users[uid].name, act.activity_power)
    /\ twin' = [twin EXCEPT !.all_powers = tally(@, users[uid].name, twin.activity_power)]
    /\ ai' = ai + 1
    /\ pc' = "user"
    /\ UNCHANGED <<tvars, ivars, appliances, error, run, users, all_events, uid, order,
                   act, committed, ops>>

\* UserModel.synthesize returns to antgen.main line 245
UserReturn ==
    /\ pc = "user"
    /\ ai > Len(order)
    /\ uid' = uid + 1
    /\ pc' = "main"
    /\ UNCHANGED <<tvars, ivars, appliances, error, run, users, all_powers, all_events,
                   order, ai, act, twin, committed, ops>>

\* antgen.main lines 271-272: the per-appliance arrays join all_powers
MainFinish ==
    /\ pc = "main"
    /\ uid > Len(users)
    /\ LET joined(p, apps) ==
              [k \in DOMAIN p \cup DOMAIN apps |->
                  IF k \in DOMAIN apps THEN apps[k].total_power ELSE p[k]]
       IN  /\ all_powers' = joined(all_powers, appliances)
           /\ twin' = [twin EXCEPT !.all_powers = joined(@, twin.appliances)]
    /\ pc' = "done"
    /\ UNCHANGED <<tvars, ivars, appliances, error, run, users, all_events, uid, order,
                   ai, act, committed, ops>>

Next ==
    \/ UserEnter \/ ActivityEnter \/ DayBegin \/ Attempt \/ DayEnd
    \/ ActivityReturn \/ UserReturn \/ MainFinish

(* the inputs tried *)
AllDay == Range(0, 0, hours_per_day, 0)
FirstHour == Range(0, 0, 1, 0)
FirstMinute == Range(0, 0, 0, 1)
EveryDay(r) == [wd \in {weekdays[k] : k \in 0..6} |-> r]
MondayOnly == [wd \in {"monday"} |-> Range(0, 1, 1, 1)]

Activity(type, devices, rows) ==
    [activity_type |-> type,
     appliance_lookup |-> (0 :> "None") @@ devices,
     appliance_binding |-> [t \in {devices[k] : k \in DOMAIN devices} |-> TRUE],
     state_machine |-> rows]

\* the user boils water for one or two seconds and waits for it
Tea == Activity("tea", 1 :> "kettle", 0 :> Row(1, 2, TRUE, TRUE, 1, RandDen, 1, 1))
\* a lamp switched by a timer for at most one second
Lamp == Activity("lamp", 1 :> "bulb", 0 :> Row(0, 1, FALSE, TRUE, 1, RandDen, 1, 1))
\* the user starts the washer, which runs on unattended
Laundry == Activity("laundry", 1 :> "washer", 0 :> Row(0, 0, TRUE, FALSE, 1, RandDen, 1, 1))
\* a fan switched by a timer for one or two seconds
Vent == Activity("vent", 1 :> "fan", 0 :> Row(1, 2, FALSE, TRUE, 1, RandDen, 1, 1))
\* a second of waiting, the user at the kettle for a second, a second of waiting
Cook == Activity("cook", 1 :> "kettle",
                 (0 :> Row(1, 1, FALSE, TRUE, 0, RandDen, 1, 1))
                 @@ (1 :> Row(1, 1, TRUE, TRUE, 1, RandDen, 2, 2))
                 @@ (2 :> Row(1, 1, FALSE, TRUE, 0, 0, 3, 3)))
\* a state that names device 2, which [devices] does not list
Typo == Activity("typo", 1 :> "kettle", 0 :> Row(1, 1, FALSE, TRUE, 2, RandDen, 1, 1))
\* a state row with a field missing
Short == Activity("short", 1 :> "kettle", 0 :> ShortRow)

\* the model files of each appliance folder: the washer has a programme of a
\* day and one second and a programme of a day; the fan draws noise
Models ==
    [kettle |-> <<[usual_duration |-> 2, comps |-> <<OnOffModel(FracDen, 60)>>]>>,
     bulb |-> <<[usual_duration |-> 1, comps |-> <<OnOffModel(FracDen, 10)>>]>>,
     washer |-> <<[usual_duration |-> secs_per_day + 1,
                   comps |-> <<OnOffModel(FracDen, 40)>>],
                  [usual_duration |-> secs_per_day,
                   comps |-> <<OnOffModel(FracDen, 30)>>]>>,
     fan |-> <<[usual_duration |-> 2, comps |-> <<NoiseModel(FracDen, 1, 2)>>]>>]

Entry(model, daily_runs, legal) ==
    [model |-> model, daily_runs |-> daily_runs, legal |-> legal]

Scenarios ==
    {[days |-> 1, first_day |-> 0, vary_runs |-> FALSE,
      types |-> {"kettle", "bulb"},
      users |-> <<[name |-> "alice", presence |-> EveryDay(AllDay),
                   activities |-> [tea |-> Entry(Tea, 2 * RandDen, EveryDay(FirstHour)),
                                   lamp |-> Entry(Lamp, 2 * RandDen,
                                                  [wd \in {"monday"} |-> FirstMinute])]]>>],
     [days |-> 2, first_day |-> 6, vary_runs |-> TRUE,
      types |-> {"washer"},
      users |-> <<[name |-> "bob", presence |-> EveryDay(AllDay),
                   activities |-> [laundry |-> Entry(Laundry, RandDen \div 2,
                                                     EveryDay(Range(0, 0, 1, 1)))]]>>],
     [days |-> 1, first_day |-> 0, vary_runs |-> FALSE,
      types |-> {"bulb"},
      users |-> <<[name |-> "erin", presence |-> EveryDay(AllDay),
                   activities |-> [lamp |-> Entry(Lamp, RandDen,
                                                  [wd \in {"monday"} |-> FirstMinute])]],
                  [name |-> "erin", presence |-> EveryDay(AllDay),
                   activities |-> [lamp |-> Entry(Lamp, RandDen,
                                                  [wd \in {"monday"} |-> FirstMinute])]]>>],
     [days |-> 2, first_day |-> 3, vary_runs |-> FALSE,
      types |-> {"fan"},
      users |-> <<[name |-> "dave", presence |-> EveryDay(AllDay),
                   activities |-> [vent |-> Entry(Vent, RandDen,
                                                  [wd \in {"thursday"} |-> AllDay])]]>>],
     [days |-> 1, first_day |-> 0, vary_runs |-> FALSE,
      types |-> {"kettle"},
      users |-> <<[name |-> "carol", presence |-> MondayOnly,
                   activities |-> [typo |-> Entry(Typo, RandDen, EveryDay(AllDay)),
                                   short |-> Entry(Short, 2 * RandDen, EveryDay(AllDay)),
                                   cook |-> Entry(Cook, 0, EveryDay(AllDay))]]>>],
     [days |-> 1, first_day |-> 0, vary_runs |-> FALSE,
      types |-> {"kettle"},
      users |-> <<[name |-> "gina", presence |-> MondayOnly,
                   activities |-> [tea |-> Entry(Tea, 2 * RandDen, EveryDay(FirstHour)),
                                   cook |-> Entry(Cook, RandDen, EveryDay(AllDay))]]>>],
     [days |-> 1, first_day |-> 0, vary_runs |-> FALSE,
      types |-> {"bulb"},
      users |-> <<[name |-> "hana", presence |-> EveryDay(AllDay),
                   activities |-> [lamp |-> Entry(Lamp, RandDen,
                                                  [wd \in {"monday"} |-> FirstMinute])]],
                  [name |-> "ivan", presence |-> EveryDay(AllDay),
                   activities |-> [lamp |-> Entry(Lamp, RandDen,
                                                  [wd \in {"monday"} |-> FirstMinute])]]>>],
     [days |-> 1, first_day |-> 0, vary_runs |-> TRUE,
      types |-> {"bulb", "washer"},
      users |-> <<[name |-> "judy", presence |-> EveryDay(AllDay),
                   activities |-> [lamp |-> Entry(Lamp, RandDen,
                                                  [wd \in {"monday"} |-> FirstMinute])]]>>]}

\* the state at antgen.main line 240 for the inputs sc
RunInit(sc) ==
    /\ run = [days |-> sc.days, first_day |-> sc.first_day, vary_runs |-> sc.vary_runs]
    /\ appliances \in
          {f \in [sc.types -> UNION {{ApplianceModel(t, Models[t], sc.days, m) :
                                        m \in 1..Len(Models[t])} : t \in sc.types}] :
              \A t \in sc.types : f[t].appliance_type = t}
    /\ users = [k \in 1..Len(sc.users) |->
                  UserModel(sc.users[k].name, sc.users[k].presence,
                            sc.users[k].activities, sc.days, sc.first_day)]
    /\ all_powers = [k \in {"total"} |-> Filled(sc.days * secs_per_day, 0)]
    /\ all_events = <<>>
    /\ uid = 1 /\ order = <<>> /\ ai = 0
    /\ act = synthesize_locals(sc.days)
    /\ twin = [all_powers |-> all_powers, appliances |-> appliances,
               activity_power |-> Filled(sc.days * secs_per_day, 0)]
    /\ committed = <<>> /\ ops = <<>>
    /\ pc = "main" /\ error = "none"

Init ==
    /\ ToolsIdle
    /\ InterpIdle
    /\ \E sc \in Scenarios : RunInit(sc)

Spec == Init /\ [][Next]_vars

(* ------------- SpecAppliance: ApplianceModel.synthesize alone ---------- *)
(* One appliance object of one day, operated once at any second of the day *)
(* for up to MaxOpDuration seconds, its model file being picked anew       *)
(* before the operation.                                                   *)
MaxOpDuration == 4

\* model folders: two halves and a component too long to render followed by
\* two halves; a quarter followed by noise; two full components
Folders ==
    {<<[usual_duration |-> 2,
        comps |-> <<OnOffModel(FracDen \div 2, 5), OnOffModel(FracDen \div 2, 3)>>],
       [usual_duration |-> 3,
        comps |-> <<OnOffModel(FracDen * (secs_per_day + 1), 7),
                    OnOffModel(FracDen \div 2, 3), OnOffModel(FracDen \div 2, 5)>>]>>,
     <<[usual_duration |-> 3,
        comps |-> <<OnOffModel(1, 2), NoiseModel(FracDen - 1, 1, 2)>>]>>,
     <<[usual_duration |-> 2,
        comps |-> <<OnOffModel(FracDen, 6), OnOffModel(FracDen, 1)>>]>>}

ApplianceInit ==
    /\ ToolsIdle
    /\ InterpIdle
    /\ \E ms \in Folders : \E m \in 1..Len(ms) :
          appliances = [t \in {"dev"} |-> ApplianceModel("dev", ms, 1, m)]
    /\ run = [days |-> 1, first_day |-> 0, vary_runs |-> TRUE]
    /\ users = <<>> /\ all_powers = <<>> /\ all_events = <<>>
    /\ uid = 0 /\ order = <<>> /\ ai = 0 /\ act = <<>> /\ twin = <<>>
    /\ committed = <<>> /\ ops = <<>>
    /\ pc = "appliance" /\ error = "none"

\* ApplianceModel.synthesize(offset, duration), lines 89-111
ApplianceSynthesize ==
    /\ pc = "appliance"
    /\ \E offset \in 0..(secs_per_day - 1), duration \in 0..MaxOpDuration :
          LET app == appliances["dev"] IN
          \E cyc \in cycle_powers(app, offset, duration) :
              IF cyc.error # "none"
              THEN /\ error' = cyc.error
                   /\ pc' = "crashed"
                   /\ UNCHANGED <<appliances, ops>>
              ELSE /\ appliances' = [appliances EXCEPT
                                        !["dev"] = accumulate(app, offset, duration, cyc.power)]
                   /\ ops' = Append(ops, [app |-> "dev", comps |-> comps(app),
                                          offset |-> offset, duration |-> duration,
                                          power |-> cyc.power, activity |-> "none"])
                   /\ pc' = "returned"
                   /\ UNCHANGED error
    /\ UNCHANGED <<tvars, ivars, run, users, all_powers, all_events, uid, order, ai, act,
                   twin, committed>>

\* pick_another_model(), lines 54-87, as ActivityModel.synthesize line 107 calls it
ApplianceVary ==
    /\ pc = "appliance"
    /\ appliances' \in {[appliances EXCEPT !["dev"] = a] :
                           a \in pick_another_model(appliances["dev"])}
    /\ UNCHANGED <<tvars, ivars, pc, error, run, users, all_powers, all_events, uid, order,
                   ai, act, twin, committed, ops>>

ApplianceNext == ApplianceSynthesize \/ ApplianceVary

SpecAppliance == ApplianceInit /\ [][ApplianceNext]_vars

(* --------------- SpecNoise: NoiseModel.synthesize alone ---------------- *)
(* Samples are integers.  numpy's generator is the one source of the       *)
(* samples: with stdev > 0 a draw is any value of a grid that reaches      *)
(* below and above every configured bound, with stdev = 0 it is the mean.  *)
(* t_arg holds the component and the length asked for, t_bitmap the        *)
(* samples drawn and the index of the one being bounded.                   *)
MaxNoise == 2
MaxNoiseLen == 2

\* NoiseModel().init_with_values(low, mean, stdev, high, duration)
NoiseConfig(low, mean, stdev, high) ==
    [type |-> "NOISE", dur |-> FracDen, low |-> low, mean |-> mean, stdev |-> stdev,
     high |-> high]

\* np.random.normal(mean, stdev): the values one draw can give
normal(mean, stdev) ==
    IF stdev = 0 THEN {mean} ELSE (0 - 1)..(MaxNoise + 1)

\* the condition of the while loop of bound() fails for val
in_bounds(self, val) == ~(val > self.high \/ val < self.low)

NoiseInit ==
    /\ InterpIdle
    /\ RunIdle
    /\ appliances = <<>>
    /\ t_pc = "call"
    /\ t_fn = "synthesize"
    /\ t_arg \in [self : {NoiseConfig(low, mean, stdev, high) :
                             low \in 0..MaxNoise, mean \in 0..MaxNoise,
                             stdev \in {0, 1}, high \in 0..MaxNoise},
                  length : 0..MaxNoiseLen]
    /\ t_bitmap = <<>>
    /\ t_ret = None

\* line 199: data = np.random.normal(self.mean, self.stdev, length)
NoiseDraw ==
    /\ t_pc = "call"
    /\ \E data \in [0..(t_arg.length - 1) -> normal(t_arg.self.mean, t_arg.self.stdev)] :
          t_bitmap' = [data |-> data, x |-> 0]
    /\ t_pc' = "bound"
    /\ UNCHANGED <<t_fn, t_arg, t_ret, appliances, ivars, rvars>>

\* lines 194-195: one pass of the while loop of bound() for the sample x.  A
\* draw that gives the value already held leaves the state as it was: a loop
\* that draws nothing else keeps running and shows as a behaviour that stays
\* in this state
NoiseRedraw ==
    /\ t_pc = "bound"
    /\ t_bitmap.x < t_arg.length
    /\ ~in_bounds(t_arg.self, t_bitmap.data[t_bitmap.x])
    /\ \E val \in normal(t_arg.self.mean, t_arg.self.stdev) :
          t_bitmap' = [t_bitmap EXCEPT !.data[t_bitmap.x] = val]
    /\ UNCHANGED <<t_pc, t_fn, t_arg, t_ret, appliances, ivars, rvars>>

\* line 196: bound() returns the sample x, and the comprehension moves on
NoiseKeep ==
    /\ t_pc = "bound"
    /\ t_bitmap.x < t_arg.length
    /\ in_bounds(t_arg.self, t_bitmap.data[t_bitmap.x])
    /\ t_bitmap' = [t_bitmap EXCEPT !.x = @ + 1]
    /\ UNCHANGED <<t_pc, t_fn, t_arg, t_ret, appliances, ivars, rvars>>

\* line 200: the array of the bounded samples is returned
NoiseReturn ==
    /\ t_pc = "bound"
    /\ t_bitmap.x >= t_arg.length
    /\ t_ret' = t_bitmap.data
    /\ t_pc' = "ret"
    /\ UNCHANGED <<t_fn, t_arg, t_bitmap, appliances, ivars, rvars>>

NoiseNext == NoiseDraw \/ NoiseRedraw \/ NoiseKeep \/ NoiseReturn

\* every step that can be taken is taken, and a redraw that can give a sample
\* inside the bounds infinitely often does so
NoiseFair ==
    /\ WF_vars(NoiseDraw)
    /\ WF_vars(NoiseKeep)
    /\ WF_vars(NoiseReturn)
    /\ SF_vars(NoiseRedraw /\ in_bounds(t_arg.self, t_bitmap'.data[t_bitmap.x]))

SpecNoise == NoiseInit /\ [][NoiseNext]_vars /\ NoiseFair

(* ------------------------ claims on the bitmap utilities --------------- *)
Returned(fn) == t_pc = "ret" /\ t_fn = fn

\* C6: Latest(bitmap) returns the index of the last true bit, or none when the
\* bitmap has no true bit; length 10 with bits 3, 4, 5 set gives 5.
\* (The claim as stated; get_latest returns len - off, one past the last true bit.)
C6_LatestIsLastTrueBit ==
    Returned("get_latest") =>
        /\ (\A i \in DOMAIN t_arg : ~t_arg[i]) => t_ret = None
        /\ (\E i \in DOMAIN t_arg : t_arg[i]) =>
              /\ t_ret \in DOMAIN t_arg
              /\ t_arg[t_ret]
              /\ \A j \in DOMAIN t_arg : j > t_ret => ~t_arg[j]
        /\ t_arg = Bitmap345 => t_ret = 5

\* C7: Earliest(bitmap) returns the smallest index holding a true bit, or none
\* when the bitmap is all-false, and leaves the bitmap as it was.
C7_EarliestIsFirstTrueBit ==
    Returned("get_earliest") =>
        /\ t_bitmap = t_arg
        /\ (\A i \in DOMAIN t_arg : ~t_arg[i]) => t_ret = None
        /\ (\E i \in DOMAIN t_arg : t_arg[i]) =>
              /\ t_ret \in DOMAIN t_arg
              /\ t_arg[t_ret]
              /\ \A j \in DOMAIN t_arg : j < t_ret => ~t_arg[j]
        /\ t_arg = Bitmap345 => t_ret = 3

C7_Witness == Returned("get_earliest") /\ t_arg = Bitmap345 /\ t_ret = 3

\* C8: WeeklyBitmap returns numDays day-blocks; block d is the one-day range
\* bitmap of weekday (startWeekday + d) mod 7 when that weekday has a spec and
\* all-false otherwise.  A spec for Monday only (one clock hour long) over 7 days
\* starting on Sunday has one hour of true bits in the Monday block, none elsewhere.
BlockCount(bmp, d) ==
    Cardinality({s \in 0..(secs_per_day - 1) : bmp[d * secs_per_day + s]})

C8_WeeklyBitmapBlocks ==
    Returned("get_bitmap_from_weekday_list") =>
        /\ DOMAIN t_ret = 0..(t_arg.num_days * secs_per_day - 1)
        /\ \A d \in 0..(t_arg.num_days - 1) : \A s \in 0..(secs_per_day - 1) :
              LET wd == weekdays[(t_arg.start_day + d) % 7]
              IN  t_ret[d * secs_per_day + s] =
                     IF wd \in DOMAIN t_arg.weekday_list
                     THEN get_bitmap_from_timerange(t_arg.weekday_list[wd])[s]
                     ELSE FALSE
        /\ (t_arg.weekday_list = MondayOnly /\ t_arg.num_days = 7 /\ t_arg.start_day = 6) =>
              \A d \in 0..6 :
                 BlockCount(t_ret, d) = IF d = 1 THEN secs_per_min * mins_per_hour ELSE 0

C8_Witness ==
    /\ Returned("get_bitmap_from_weekday_list")
    /\ t_arg.weekday_list = MondayOnly /\ t_arg.num_days = 7 /\ t_arg.start_day = 6
    /\ BlockCount(t_ret, 1) = secs_per_min * mins_per_hour
    /\ BlockCount(t_ret, 0) = 0

\* C9: TimeRangeBitmap returns a one-day bitmap whose bit s is true exactly when
\* s lies in [from, to) of a well-formed HH:MM-HH:MM sub-range, a clock value
\* with an hour at or past the end of the day being the end of the day; a
\* sub-range whose end is not after its start sets no bit.
WellFormed(r) == r.dash /\ r.fr.colon /\ r.to.colon
ClockSecond(c) ==
    IF c.hr >= hours_per_day THEN secs_per_day
    ELSE c.hr * mins_per_hour * secs_per_min + c.mn * secs_per_min

C9_TimeRangeBitmap ==
    Returned("get_bitmap_from_timerange") =>
        /\ DOMAIN t_ret = 0..(secs_per_day - 1)
        /\ \A s \in 0..(secs_per_day - 1) :
              t_ret[s] <=> \E k \in 1..Len(t_arg) :
                              /\ WellFormed(t_arg[k])
                              /\ ClockSecond(t_arg[k].fr) <= s
                              /\ s < ClockSecond(t_arg[k].to)

\* two sub-ranges, one of them ending before it starts, the other set
C9_Witness ==
    /\ Returned("get_bitmap_from_timerange")
    /\ Len(t_arg) = 2
    /\ WellFormed(t_arg[1]) /\ ClockSecond(t_arg[1].to) < ClockSecond(t_arg[1].fr)
    /\ WellFormed(t_arg[2]) /\ t_arg[2].to.hr >= hours_per_day
    /\ ClockSecond(t_arg[2].fr) = secs_per_min
    /\ CountTrue(t_ret) = secs_per_day - secs_per_min

(* ------------- SpecApi: the classes used without main's binding ---------- *)
(* main binds every required appliance or terminates (lines 222-231); a     *)
(* caller of UserModel.synthesize that skips this leaves appliance_binding  *)
(* entries at None, as ActivityModel.__init__ sets them (line 66).          *)

\* an activity whose iron was never bound
Press ==
    [Activity("press", 1 :> "iron", 0 :> Row(1, 1, TRUE, TRUE, 1, RandDen, 1, 1))
        EXCEPT !.appliance_binding["iron"] = FALSE]

ApiScenarios ==
    {[days |-> 1, first_day |-> fd, vary_runs |-> FALSE,
      types |-> {"kettle"},
      users |-> <<[name |-> "frank", presence |-> EveryDay(AllDay),
                   activities |-> [tea |-> Entry(Tea, 2 * RandDen, EveryDay(FirstHour)),
                                   press |-> Entry(Press, RandDen, EveryDay(AllDay))]]>>] :
        fd \in {0, 5}}

ApiInit ==
    /\ ToolsIdle
    /\ InterpIdle
    /\ \E sc \in ApiScenarios : RunInit(sc)

SpecApi == ApiInit /\ [][Next]_vars

(* --------------------------- claims on the run ------------------------- *)
(* committed records every instance the scheduler committed; ops records   *)
(* every appliance operation synthesized; twin holds the power arrays of a *)
(* second run given the same seed and inputs.                              *)

\* C1 (as stated; the code violates it): two runs with the same seed and
\* inputs end with identical power arrays
C1_SameSeedSamePowers ==
    pc = "done" => twin.all_powers = all_powers

\* the seconds of the committed window [start, start + duration)
Window(c) == c.starting_time..(c.starting_time + c.duration - 1)

\* C2: no two committed windows of one activity of one user overlap
C2_NoSelfOverlap ==
    \A i, j \in DOMAIN committed :
        (i # j /\ committed[i].uid = committed[j].uid
               /\ committed[i].name = committed[j].name)
            => Window(committed[i]) \cap Window(committed[j]) = {}

\* two instances of one activity are committed on one day, each a second or longer
C2_Witness ==
    \E i, j \in DOMAIN committed :
        /\ i # j
        /\ committed[i].uid = committed[j].uid
        /\ committed[i].name = committed[j].name
        /\ committed[i].d = committed[j].d
        /\ committed[i].duration >= 1
        /\ committed[j].duration >= 1

\* C3 (as stated; the code violates it): every DEVICE ON/OFF offset of an
\* instance lies within [its ACTIVITY START offset, its ACTIVITY END offset]
C3_DeviceEventsInsideActivity ==
    \A i \in DOMAIN committed :
        LET c == committed[i] IN
        all_events[c.last_event].transition = "END" =>
            \A k \in (c.first_event + 1)..(c.last_event - 1) :
                /\ all_events[c.first_event].offset <= all_events[k].offset
                /\ all_events[k].offset <= all_events[c.last_event].offset

\* C4 (as stated; the code violates it): no condition met during synthesis
\* aborts the run with an uncaught error
C4_NoUncaughtError ==
    error = "none" /\ pc # "crashed"

\* the operation's appliance runs one on/off component of fraction 1.0
SingleOnOff(op) ==
    /\ Len(op.comps) = 1
    /\ op.comps[1].type = "ON_OFF"
    /\ op.comps[1].dur = FracDen

horizon == run.days * secs_per_day
InsideHorizon(op) == op.offset >= 0 /\ op.offset + op.duration <= horizon

\* P on the seconds offset..offset+duration-1 and nothing elsewhere
OnWindow(op) ==
    [x \in 0..(horizon - 1) |->
        IF x \in op.offset..(op.offset + op.duration - 1) THEN op.comps[1].on ELSE 0]

\* the sum of what the operations numbered in K, from k on, added
RECURSIVE Added(_, _)
Added(k, K) ==
    IF k > Len(ops) THEN Filled(horizon, 0)
    ELSE IF k \in K THEN ArrayAdd(ops[k].power, Added(k + 1, K))
    ELSE Added(k + 1, K)

\* the arrays hold what the operations added, and busy the seconds they ran
Accumulated ==
    /\ \A t \in DOMAIN appliances :
          /\ appliances[t].total_power = Added(1, {k \in DOMAIN ops : ops[k].app = t})
          /\ \A x \in 0..(horizon - 1) :
                appliances[t].busy[x] <=>
                    \E k \in DOMAIN ops :
                        /\ ops[k].app = t
                        /\ x \in ops[k].offset..(ops[k].offset + ops[k].duration - 1)
    /\ pc = "done" =>
          /\ \A a \in {ops[k].activity : k \in DOMAIN ops} :
                all_powers[a] = Added(1, {k \in DOMAIN ops : ops[k].activity = a})
          /\ all_powers["total"] = Added(1, DOMAIN ops)
          /\ Len(users) = 1 => all_powers[users[1].name] = Added(1, DOMAIN ops)

\* C5 (as stated): a single on/off component of fraction 1.0 and power P run
\* for (offset, duration) inside the horizon adds P to exactly the seconds
\* offset..offset+duration-1 of every array, and marks them busy
C5_OnOffAddsPOnWindow_AnyDuration ==
    error = "none" =>
        /\ \A k \in DOMAIN ops :
              (SingleOnOff(ops[k]) /\ InsideHorizon(ops[k])) => ops[k].power = OnWindow(ops[k])
        /\ Accumulated

\* C5 (amended): the same for a duration of at most one day
C5_OnOffAddsPOnWindow ==
    error = "none" =>
        /\ \A k \in DOMAIN ops :
              (SingleOnOff(ops[k]) /\ InsideHorizon(ops[k])
                   /\ ops[k].duration <= secs_per_day)
                  => ops[k].power = OnWindow(ops[k])
        /\ Accumulated

\* a run ended in which such an operation of a second or longer took place
C5_Witness ==
    /\ pc = "done"
    /\ \E k \in DOMAIN ops :
          /\ SingleOnOff(ops[k]) /\ InsideHorizon(ops[k])
          /\ ops[k].duration >= 1 /\ ops[k].duration <= secs_per_day
          /\ ops[k].offset > 0

(* ------------------------ claims on the interpreter --------------------- *)
\* C10: the interpreter moves to successor-a when the draw is below the
\* state's probability and to successor-b otherwise; with probability 1.0
\* always to successor-a, with 0.0 always to successor-b
C10_TransitionByDraw ==
    (ip.status \in {"run", "done"} /\ ip.state # None) =>
        LET cmd == ip_self.state_machine[ip.state]
        IN  /\ (ip.draw < cmd.pa) => ip.current_state = cmd.sa
            /\ (ip.draw >= cmd.pa) => ip.current_state = cmd.sb
            /\ cmd.pa = RandDen => ip.current_state = cmd.sa
            /\ cmd.pa = 0 => ip.current_state = cmd.sb

\* the lowest draw was made in a state of probability 0.0, with distinct successors
C10_Witness ==
    /\ ip.status \in {"run", "done"}
    /\ ip.state # None
    /\ ip_self.state_machine[ip.state].pa = 0
    /\ ip.draw = 0
    /\ ip_self.state_machine[ip.state].sa # ip_self.state_machine[ip.state].sb
    /\ ip.current_state = ip_self.state_machine[ip.state].sb

(* ------------------------- claims on the bitmaps ------------------------ *)
\* C11: busy marks are permanent: a second busy in an activity's time-of-run
\* bitmap, unavailable in a user's availability bitmap or busy in an
\* appliance's busy bitmap stays so in every later state of the run
C11_BusyMarksPermanent ==
    [][/\ \A u \in DOMAIN users :
             /\ \A x \in DOMAIN users[u].availability :
                   ~users[u].availability[x] => ~users'[u].availability[x]
             /\ \A a \in DOMAIN users[u].possible_runtimes :
                   \A x \in DOMAIN users[u].possible_runtimes[a] :
                      ~users[u].possible_runtimes[a][x]
                          => ~users'[u].possible_runtimes[a][x]
       /\ \A t \in DOMAIN appliances :
             \A x \in DOMAIN appliances[t].busy :
                appliances[t].busy[x] => appliances'[t].busy[x]]_vars

\* a second instance was committed after a first one had marked all three bitmaps
C11_Witness ==
    /\ Len(committed) >= 2
    /\ LET c == committed[1]
       IN  /\ c.duration >= 1 /\ c.user_earliest # None /\ c.user_latest > 0
           /\ ~users[c.uid].possible_runtimes[c.name][c.starting_time]
           /\ ~users[c.uid].availability[c.starting_time + c.user_earliest]
           /\ \E t \in DOMAIN appliances : appliances[t].busy[c.starting_time]

(* ------------------------ claims on the power arrays -------------------- *)
\* C12 (as stated; the code violates it): no array of the power-array map is
\* replaced or reset once it exists; an array changes only by the addition
\* of waveforms, so no sample of it ever decreases
C12_ArraysNeverReset ==
    [][\A k \in DOMAIN all_powers :
          /\ k \in DOMAIN all_powers'
          /\ \A x \in DOMAIN all_powers[k] : all_powers'[k][x] >= all_powers[k][x]]_vars

(* --------------------- claims on the scheduler's passes ------------------ *)
\* the activity being synthesized, and a pass of its loop over the repetitions
Current == users[uid].activities[order[ai]]
PassBegins == pc = "attempt" /\ act.r < act.reps

\* C13: when the interpreter meets a malformed state row it returns a null
\* schedule instead of raising; the scheduler abandons the remaining attempts
\* of the activity for the day (counting them failed), commits nothing, and
\* the run goes on
C13_MalformedRowAbandonsDay ==
    [][(PassBegins /\ ~Decodes(Current.state_machine[0])) =>
          /\ act'.last.kind = "null"
          /\ error' = "none" /\ pc' = "dayend"
          /\ act'.scheduling_failures = act.scheduling_failures + act.reps
          /\ act'.scheduled_activities = act.scheduled_activities
          /\ committed' = committed /\ ops' = ops
          /\ all_events' = all_events /\ all_powers' = all_powers
          /\ users' = users]_vars

\* a run ended in which an activity with a malformed row was synthesized
\* before another activity that was committed
C13_Witness ==
    /\ pc = "done"
    /\ \E i, j \in DOMAIN order :
          /\ i < j
          /\ ~Decodes(users[1].activities[order[i]].state_machine[0])
          /\ users[1].runs_per_day[order[i]] >= RandDen
          /\ \E k \in DOMAIN committed : committed[k].name = order[j]

(* -------------------- claims on an unbound activity --------------------- *)
\* at least one required appliance type of the activity is unbound
Unbound(a) == \E t \in DOMAIN a.appliance_binding : ~a.appliance_binding[t]

\* C14: an activity with an unbound appliance type contributes nothing and is
\* no fault: synthesize returns an all-zero array, appends no event, leaves
\* the power-array map and the bitmaps unchanged, and the run goes on with
\* the next activity
C14_UnboundContributesNothing ==
    [][/\ (pc = "user" /\ ai <= Len(order) /\ Unbound(Current)) =>
             /\ pc' = "return" /\ error' = "none"
             /\ act'.activity_power = Filled(users[uid].days * secs_per_day, 0)
             /\ all_events' = all_events /\ all_powers' = all_powers
             /\ users' = users /\ committed' = committed /\ ops' = ops
       /\ pc = "return" =>
             /\ pc' = "user" /\ ai' = ai + 1 /\ error' = "none"
             /\ all_events' = all_events /\ all_powers' = all_powers
             /\ users' = users /\ committed' = committed /\ ops' = ops]_vars

\* a run ended in which the unbound activity came before one that was committed
C14_Witness ==
    /\ pc = "done"
    /\ \E i, j \in DOMAIN order :
          /\ i < j
          /\ Unbound(users[1].activities[order[i]])
          /\ users[1].activities[order[i]].activity_type \notin DOMAIN all_powers
          /\ \E k \in DOMAIN committed : committed[k].name = order[j]

\* the power arrays and busy bitmaps of the appliances are as before the step
AppliancesUntouched ==
    \A t \in DOMAIN appliances :
        /\ appliances'[t].total_power = appliances[t].total_power
        /\ appliances'[t].busy = appliances[t].busy

\* C15: a failed placement attempt (no fitting run in the day, or no free
\* window found) changes nothing but the failure counter: bitmaps, power
\* arrays and event list are as before the attempt
C15_FailedAttemptChangesNothing ==
    [][(PassBegins /\ act'.last.kind \in {"nofit", "nowindow"}) =>
          /\ users' = users
          /\ all_powers' = all_powers /\ all_events' = all_events
          /\ AppliancesUntouched
          /\ committed' = committed /\ ops' = ops
          /\ error' = "none" /\ uid' = uid /\ order' = order /\ ai' = ai
          /\ act'.activity_power = act.activity_power
          /\ act'.scheduled_activities = act.scheduled_activities
          /\ act'.d = act.d
          /\ act'.scheduling_failures \in
                {act.scheduling_failures, act.scheduling_failures + 1}]_vars

\* the search found no window for an instance after another one was committed
C15_Witness ==
    /\ pc = "dayend"
    /\ act.last.kind = "nowindow"
    /\ act.scheduling_failures >= 1
    /\ Len(committed) >= 1 /\ Len(all_events) >= 1

\* the seconds of the window the pass just committed
LastWindow(p) == p.starting_time..(p.starting_time + p.duration - 1)

\* C16: a committed window is, when committed, entirely free in the
\* activity's legal-time bitmap, entirely inside the block of the day being
\* processed and, if the activity involves the user, entirely free in the
\* user's availability bitmap
C16_CommittedWindowWasFree ==
    [][(PassBegins /\ act'.last.kind = "committed") =>
          \A x \in LastWindow(act'.last) :
             /\ act.d * secs_per_day <= x /\ x < (act.d + 1) * secs_per_day
             /\ x < users[uid].days * secs_per_day
             /\ users[uid].possible_runtimes[order[ai]][x]
             /\ act'.last.user_earliest # None => users[uid].availability[x]]_vars

\* an activity that involves no user was committed on a second at which the
\* user was unavailable, and one that involves the user on a free second
C16_Witness ==
    /\ \E k \in DOMAIN committed :
          /\ committed[k].user_earliest = None /\ committed[k].duration >= 1
          /\ k = Len(committed)
          /\ ~users[committed[k].uid].availability[committed[k].starting_time]
    /\ \E k \in DOMAIN committed :
          committed[k].user_earliest # None /\ committed[k].duration >= 1

\* the bitmap has no run of free seconds as long as duration
NoFreeRun(bitmap, duration) ==
    ~\E t \in DOMAIN bitmap :
        \A x \in t..(t + duration - 1) : x \in DOMAIN bitmap /\ bitmap[x]

\* the pass computed the intersection for the day
Intersected(p) == p.kind \in {"nofit", "nowindow", "committed"}

\* the activity's time-of-run bitmap has a free second in the day being processed
LegalToday ==
    \E x \in (act.d * secs_per_day)..((act.d + 1) * secs_per_day - 1) :
        users[uid].possible_runtimes[order[ai]][x]

\* C17 (as stated): whenever the intersection for the day has no free run as
\* long as the candidate (the empty intersection included), one failure is
\* counted and no further attempt is made for the activity on that day
C17_NoFreeRunCountsOneFailure ==
    [][(PassBegins /\ Intersected(act'.last)
            /\ NoFreeRun(act'.last.availability, act'.last.duration)) =>
          /\ pc' = "dayend"
          /\ act'.scheduling_failures = act.scheduling_failures + 1]_vars

\* C17 (amended): the failure is counted only if the activity's time-of-run
\* bitmap has a free second on that day; in either case no further attempt
\* is made
C17_NoFreeRunStopsTheDay ==
    [][(PassBegins /\ Intersected(act'.last)
            /\ NoFreeRun(act'.last.availability, act'.last.duration)) =>
          /\ pc' = "dayend"
          /\ act'.scheduling_failures =
                act.scheduling_failures + (IF LegalToday THEN 1 ELSE 0)]_vars

\* a day without a legal second ended uncounted after a repetition was due
C17_Witness ==
    /\ pc = "dayend"
    /\ act.last.kind = "nofit"
    /\ act.reps >= 1
    /\ act.scheduling_failures = 0
    /\ NoFreeRun(act.last.availability, act.last.duration)
    /\ ~LegalToday

\* the start offsets of [earliest, latest + 1 - duration] (earliest and latest
\* as get_earliest and get_latest returned them) whose window is fully free
FreeStarts(p) ==
    {t \in p.earliest_start..(p.latest_start + 1 - p.duration) :
        \A x \in t..(t + p.duration - 1) :
            x \in DOMAIN p.availability /\ p.availability[x]}

\* C18: a committed start is an offset of [earliest, latest+1-duration] whose
\* window is fully free; when the random probes found none, it is the
\* smallest such offset, and no window is reported only if there is none
C18_ProbesThenLeftmostScan ==
    /\ act.last.kind = "committed" =>
          /\ act.last.starting_time \in FreeStarts(act.last)
          /\ act.last.scanned =>
                \A t \in FreeStarts(act.last) : act.last.starting_time <= t
    /\ act.last.kind = "nowindow" =>
          FreeStarts(act.last) = {}

\* the scan committed the first of several free offsets
C18_Witness ==
    /\ act.last.kind = "committed"
    /\ act.last.scanned
    /\ act.last.duration >= 1
    /\ \E t \in FreeStarts(act.last) : t > act.last.starting_time

\* C19: whenever the day's intersection holds a fully free window of the
\* candidate's duration (a second or longer), the pass commits a window
C19_FittingWindowIsCommitted ==
    (Intersected(act.last) /\ act.last.duration >= 1
        /\ ~NoFreeRun(act.last.availability, act.last.duration))
            => act.last.kind = "committed"

\* the scan committed the last offset of the intersection that could fit
C19_Witness ==
    /\ act.last.kind = "committed"
    /\ act.last.duration >= 1
    /\ act.last.scanned
    /\ act.last.starting_time = act.last.latest_start - act.last.duration

\* C20: a placement at s of a candidate of duration D and user bounds (a, b)
\* clears exactly the bits [s, s+D) of the activity's time-of-run bitmap and,
\* if the activity involves the user, exactly the bits [s+a, s+b) of the
\* user's availability bitmap; every other bit of every bitmap is unchanged
C20_CommitClearsExactlyTheWindow ==
    [][(PassBegins /\ act'.last.kind = "committed") =>
          LET p == act'.last
              s == p.starting_time
          IN  \A u \in DOMAIN users :
                 /\ \A x \in DOMAIN users[u].availability :
                       users'[u].availability[x] =
                          IF /\ u = uid /\ p.user_earliest # None
                             /\ x \in (s + p.user_earliest)..(s + p.user_latest - 1)
                          THEN FALSE ELSE users[u].availability[x]
                 /\ \A a \in DOMAIN users[u].possible_runtimes :
                       \A x \in DOMAIN users[u].possible_runtimes[a] :
                          users'[u].possible_runtimes[a][x] =
                             IF u = uid /\ a = order[ai] /\ x \in LastWindow(p)
                             THEN FALSE ELSE users[u].possible_runtimes[a][x]]_vars

\* the user was marked busy for the middle second of a window of three
C20_Witness ==
    /\ act.last.kind = "committed"
    /\ act.last.duration = 3
    /\ act.last.user_earliest = 1 /\ act.last.user_latest = 2
    /\ users[uid].availability[act.last.starting_time]
    /\ ~users[uid].availability[act.last.starting_time + 1]
    /\ users[uid].availability[act.last.starting_time + 2]
    /\ \A x \in LastWindow(act.last) : ~users[uid].possible_runtimes[order[ai]][x]

(* ------------------------ claims on the user's time -------------------- *)
\* the seconds line 283 marks the user busy for the committed instance c
UserBusy(c) ==
    IF c.user_earliest # None /\ c.user_latest > 0
    THEN (c.starting_time + c.user_earliest)..(c.starting_time + c.user_latest - 1)
    ELSE {}

\* the presence bitmap of user u as UserModel.__init__ built it
InitialPresence(u) ==
    get_bitmap_from_weekday_list(users[u].presence, users[u].days, run.first_day)

Failed(p) == p.kind \in {"null", "nofit", "nowindow"}

\* the instances of activity a of user u committed on day d
CommittedOn(u, a, d) ==
    {k \in DOMAIN committed :
        committed[k].uid = u /\ committed[k].name = a /\ committed[k].d = d}

\* C22: after the first null schedule or placement failure of an activity on
\* day d nothing more of it is attempted or committed on day d, whatever is
\* left of reps; the next day draws its own reps and starts its attempts at
\* zero; the instances committed on a day never exceed that day's reps
C22_FailureEndsTheDayOnly ==
    /\ [](pc \in {"attempt", "dayend"} =>
             Cardinality(CommittedOn(uid, order[ai], act.d)) <= act.reps)
    /\ [][/\ (PassBegins /\ Failed(act'.last)) =>
                (pc' = "dayend" /\ act'.d = act.d /\ committed' = committed)
          /\ pc = "dayend" =>
                /\ pc' = "day" /\ act'.d = act.d + 1
                /\ committed' = committed /\ all_events' = all_events
          /\ (pc = "day" /\ act.d < users[uid].days) =>
                /\ pc' = "attempt" /\ act'.d = act.d /\ act'.r = 0
                /\ act'.reps \in {draw_reps(users[uid].runs_per_day[order[ai]], u) :
                                     u \in 0..(RandDen - 1)}
          /\ \A k \in DOMAIN committed' \ DOMAIN committed :
                /\ committed'[k].uid = uid /\ committed'[k].name = order[ai]
                /\ committed'[k].d = act.d]_vars

\* a placement failed on the first of two repetitions due, and the day ended
\* with the second never attempted
C22_Witness ==
    /\ pc = "dayend"
    /\ act.last.kind \in {"nofit", "nowindow"}
    /\ act.r + 1 < act.reps
    /\ CommittedOn(uid, order[ai], act.d) = {}

\* C23 (as stated; the code violates it): the attempts due on a day are reps;
\* for a daily rate of 1 or more reps is round(rate + u) for one draw u of
\* [-0.5, 0.5); for a rate below 1 reps is 0 or 1; reps is never negative and
\* a rate of 0 never gives an attempt
C23_RepsFromRate ==
    pc = "attempt" =>
        LET rate == users[uid].runs_per_day[order[ai]] IN
        /\ act.reps >= 0
        /\ rate >= RandDen =>
              \E u \in 0..(RandDen - 1) :
                 act.reps = RoundHalfEven(2 * (rate + u) - RandDen, 2 * RandDen)
        /\ rate < RandDen => act.reps \in {0, 1}
        /\ rate = 0 => act.reps = 0

(* ------------------------ claims on the interpreter's walk --------------- *)
\* len(self.state_machine) of the activity interpreted
StateCount == Cardinality(DOMAIN ip_self.state_machine)

\* the step is a pass of the loop body that decoded a state row
Decoded == ip.status = "run" /\ ip'.status = "run" /\ ip'.visits = ip.visits + 1

\* the result the interpreter returns from the locals st
Result(st) == <<st.total_duration, st.schedule, st.user_min_time, st.user_max_time>>

\* C24: the walk starts at state 0; a state is decoded only if its index is in
\* [0, state count) and the definition has a row for it; the walk returns
\* exactly when the current index is the state count or more, and returns the
\* result accumulated so far; no end state is needed
C24_WalkEndsPastStateCount ==
    [][/\ ip.status = "entry" =>
             /\ ip'.status = "run" /\ ip'.current_state = 0
             /\ Result(ip') = <<0, <<>>, None, 0>>
       /\ Decoded =>
             /\ ip.current_state \in 0..(StateCount - 1)
             /\ ip.current_state \in DOMAIN ip_self.state_machine
             /\ ip'.state = ip.current_state
       /\ ip.status = "run" =>
             /\ ip'.status = "done" <=> ip.current_state >= StateCount
             /\ ip'.status = "done" =>
                   Result(ip') = Result(ip) /\ ip'.visits = ip.visits]_vars

\* a walk of two states returned with a schedule, at an index for which the
\* definition has no row
C24_Witness ==
    /\ ip.status = "done"
    /\ ip.visits >= 2
    /\ ip.schedule # <<>>
    /\ ip.current_state >= StateCount
    /\ ip.current_state \notin DOMAIN ip_self.state_machine

\* the successors of state s that a draw of non-zero probability selects
Successors(self, s) ==
    IF s \notin DOMAIN self.state_machine THEN {}
    ELSE LET cmd == self.state_machine[s]
         IN  (IF cmd.pa > 0 THEN {cmd.sa} ELSE {}) \cup
             (IF cmd.pa < RandDen THEN {cmd.sb} ELSE {})

\* the indices reachable from those of S, a terminal index having no successor
RECURSIVE Reach(_, _)
Reach(self, S) ==
    LET T == S \cup UNION {Successors(self, s) :
                             s \in {x \in S : x < Cardinality(DOMAIN self.state_machine)}}
    IN  IF T = S THEN S ELSE Reach(self, T)

\* every state the walk can reach has a row that decodes and names a bound
\* appliance or none, and can reach a terminal index
EveryStateCanEnd(self) ==
    \A s \in Reach(self, {0}) :
        s < Cardinality(DOMAIN self.state_machine) =>
            /\ s \in DOMAIN self.state_machine
            /\ Decodes(self.state_machine[s])
            /\ self.state_machine[s].devID \in DOMAIN self.appliance_lookup
            /\ \E t \in Reach(self, {s}) : t >= Cardinality(DOMAIN self.state_machine)

\* C25: for a definition in which every reachable state can reach a terminal
\* index through transitions of non-zero probability, the walk, under fair
\* draws, ends and returns its result; it does not loop forever
C25_WalkEnds ==
    (ip.status = "entry" /\ EveryStateCanEnd(ip_self)) ~> (ip.status = "done")

\* a walk returned after it came back to a state it had visited before
C25_Witness ==
    /\ ip.status = "done"
    /\ EveryStateCanEnd(ip_self)
    /\ ip.visits > Cardinality(DOMAIN ip_self.state_machine)
    /\ 0 \in Successors(ip_self, ip.state) \cup Successors(ip_self, 0)

(* ------------------------ claims on one visited state -------------------- *)
\* the row of the state the pass decodes, and the entry of a schedule at a key
Visited == ip_self.state_machine[ip.current_state]
EntryAt(schedule, key) ==
    (CHOOSE k \in DOMAIN schedule : schedule[k].key = key)

\* the duration the pass gave the state: the one recorded with the appliance,
\* or for a state without appliance the advance of the cursor
Runtime ==
    IF Visited.devID # 0
    THEN ip'.schedule[EntryAt(ip'.schedule, ip.total_duration)].val.dur
    ELSE ip'.total_duration - ip.total_duration

\* C26: the duration of a visited state is a value of 5..10 when min = max = 0
\* and the state has no appliance, the usual duration of the bound appliance
\* when min = max = 0 and it has one, and otherwise an integer of
\* [min(min, max), max(min, max)]: bounds given in either order are accepted
C26_StateDuration ==
    [][Decoded =>
          LET cmd == Visited
              zero == cmd.mn = 0 /\ cmd.mx = 0
          IN  /\ (zero /\ cmd.devID = 0) => Runtime \in DefaultMin..DefaultMax
              /\ (zero /\ cmd.devID # 0) =>
                    Runtime = usual_duration(appliances[ip_self.appliance_lookup[cmd.devID]])
              /\ ~zero =>
                    /\ Runtime >= Min2(cmd.mn, cmd.mx)
                    /\ Runtime <= Max2(cmd.mn, cmd.mx)]_vars

\* a state with bounds 2 and 1 and no appliance took one second, and the state
\* after it, with min = max = 0, ran the kettle for its usual duration
C26_Witness ==
    /\ ip.status = "run"
    /\ ip.visits = 2
    /\ ip.state = 1
    /\ LET r0 == ip_self.state_machine[0]
           r1 == ip_self.state_machine[1]
       IN  /\ r0.mn = 2 /\ r0.mx = 1 /\ r0.devID = 0
           /\ r1.mn = 0 /\ r1.mx = 0 /\ r1.devID = 1
           /\ \E k \in DOMAIN ip.schedule :
                 /\ ip.schedule[k].key = 1
                 /\ ip.schedule[k].val.dur = usual_duration(appliances["kettle"])

\* the schedule holds at key the pair (app, dur) and is otherwise as before
Recorded(after, before, key, app, dur) ==
    /\ \E k \in DOMAIN after :
          after[k] = [key |-> key, val |-> [app |-> app, dur |-> dur]]
    /\ \A k \in DOMAIN before :
          before[k].key # key => \E j \in DOMAIN after : after[j] = before[k]
    /\ \A j \in DOMAIN after :
          after[j].key # key => \E k \in DOMAIN before : before[k] = after[j]

\* C27: a visited state with an appliance records (appliance, duration) at the
\* cursor held before the state, then moves the cursor by the duration if
\* must-complete is set and by a jitter of 5..10 if not; a state without
\* appliance records nothing and moves the cursor by its duration; the
\* total_duration returned is the cursor after the last state
C27_ScheduleEntryAndCursor ==
    [][/\ ip.status = "entry" => ip'.total_duration = 0 /\ ip'.schedule = <<>>
       /\ Decoded =>
             LET cmd == Visited
                 moved == ip'.total_duration - ip.total_duration
             IN  IF cmd.devID # 0
                 THEN /\ Recorded(ip'.schedule, ip.schedule, ip.total_duration,
                                  ip_self.appliance_lookup[cmd.devID], Runtime)
                      /\ cmd.fin => moved = Runtime
                      /\ ~cmd.fin => moved \in JitterMin..JitterMax
                 ELSE /\ ip'.schedule = ip.schedule
                      /\ IF cmd.mn = 0 /\ cmd.mx = 0
                         THEN moved \in DefaultMin..DefaultMax
                         ELSE moved \in Min2(cmd.mn, cmd.mx)..Max2(cmd.mn, cmd.mx)
       /\ (ip.status = "run" /\ ip'.status = "done") =>
             ip'.total_duration = ip.total_duration]_vars

\* the kettle was started at 0 without must-complete and the cursor moved by
\* a jitter that is not its duration; started again there with must-complete,
\* the cursor moved by its duration
C27_Witness ==
    /\ ip.status = "done"
    /\ ip.visits = 2
    /\ Len(ip.schedule) = 2
    /\ ip.schedule[1].key = 0
    /\ ip.schedule[2].key \in JitterMin..JitterMax
    /\ ip.schedule[2].key # ip.schedule[1].val.dur
    /\ ip.schedule[2].val.dur >= 1
    /\ ip.total_duration = ip.schedule[2].key + ip.schedule[2].val.dur

\* C28: user_min_time (user_busy_start) is the cursor before the first visited
\* state that requires the user and never changes afterwards; user_max_time
\* (user_busy_end) is the cursor after the last visited state that requires
\* the user; as long as no visited state requires the user, user_min_time is
\* none (the value on which the scheduler leaves the user's bitmap aside)
C28_UserBounds ==
    [][/\ ip.status = "entry" => ip'.user_min_time = None /\ ip'.user_max_time = 0
       /\ Decoded =>
             /\ ip'.user_min_time =
                   IF ip.user_min_time # None THEN ip.user_min_time
                   ELSE IF Visited.usr THEN ip.total_duration ELSE None
             /\ ip'.user_max_time =
                   IF Visited.usr THEN ip'.total_duration ELSE ip.user_max_time
       /\ (ip.status = "run" /\ ip'.status = "done") =>
             /\ ip'.user_min_time = ip.user_min_time
             /\ ip'.user_max_time = ip.user_max_time]_vars

\* the walk returned after a state without the user and two seconds of the
\* user at the kettle: the user is busy from the cursor before the second state
C28_Witness ==
    /\ ip.status = "done"
    /\ ip.visits = 2
    /\ ~ip_self.state_machine[0].usr
    /\ ip.state = 1 /\ ip_self.state_machine[1].usr
    /\ ip.user_min_time > 0
    /\ ip.user_max_time = ip.user_min_time + 2
    /\ ip.user_max_time = ip.total_duration

\* the locals are ordered: total_duration is 0 or more, every offset of the
\* schedule lies in [0, total_duration], and a user_min_time that is not none
\* satisfies 0 <= user_min_time <= user_max_time <= total_duration
Ordered ==
    /\ ip.total_duration >= 0
    /\ \A k \in DOMAIN ip.schedule :
          0 <= ip.schedule[k].key /\ ip.schedule[k].key <= ip.total_duration
    /\ ip.user_min_time # None =>
          /\ 0 <= ip.user_min_time
          /\ ip.user_min_time <= ip.user_max_time
          /\ ip.user_max_time <= ip.total_duration

\* no row of the definition has a bound below zero, and no model file of a
\* bound appliance a usual duration below zero
NonNegativeDurations ==
    /\ \A s \in DOMAIN ip_self.state_machine :
          ip_self.state_machine[s].mn >= 0 /\ ip_self.state_machine[s].mx >= 0
    /\ \A t \in DOMAIN appliances :
          \A m \in DOMAIN appliances[t].models : appliances[t].models[m].usual_duration >= 0

\* C29 (as stated): in every result that is not null total_duration is 0 or
\* more, every offset of the schedule lies in [0, total_duration], and a
\* user_min_time that is not none satisfies 0 <= user_min_time <=
\* user_max_time <= total_duration: the user-busy sub-range stays inside the
\* window
C29_ResultOrdered ==
    ip.status \in {"run", "done"} => Ordered

\* C29 (amended): the same, for a definition and appliances without a
\* duration below zero
C29_ResultOrderedNonNegative ==
    (ip.status \in {"run", "done"} /\ NonNegativeDurations) => Ordered

\* a walk returned with the user busy from 0 to the start of a second
\* appliance, which runs on after the user has left
C29_Witness ==
    /\ ip.status = "done"
    /\ NonNegativeDurations
    /\ Len(ip.schedule) = 2
    /\ ip.user_min_time = 0
    /\ 0 < ip.user_max_time
    /\ ip.user_max_time < ip.total_duration
    /\ ip.schedule[2].key = ip.user_max_time

\* C30 (as stated; the code violates it): the schedule gains one entry with
\* every visited state that references an appliance, and no entry recorded by
\* an earlier state is overwritten by a later one recorded at the same offset
C30_NoEntryOverwritten ==
    [][(Decoded /\ Visited.devID # 0) =>
          /\ Len(ip'.schedule) = Len(ip.schedule) + 1
          /\ \A k \in DOMAIN ip.schedule : ip'.schedule[k] = ip.schedule[k]]_vars

(* ------------------------ claims on the event log ------------------------ *)
\* the instance c has all its events: the last one is its ACTIVITY END
Complete(c) == all_events[c.last_event].transition = "END"

\* the DEVICE OFF offsets of the invocations of the instance c: the one
\* placed at start + o with duration dur goes off at start + o + dur - 1
OffOffsets(c) ==
    {c.starting_time + c.schedule[k].key + c.schedule[k].val.dur - 1 :
        k \in DOMAIN c.schedule}

\* C31 (as stated; the code violates it): the ACTIVITY END offset of a
\* committed instance is the largest DEVICE OFF offset of its invocations, the
\* invocation at start + o of duration dur having ON at start + o and OFF at
\* start + o + dur - 1
C31_EndIsLatestOff ==
    \A i \in DOMAIN committed :
        LET c == committed[i] IN
        (Complete(c) /\ c.schedule # <<>>) =>
            /\ all_events[c.last_event].offset = SetMax(OffOffsets(c))
            /\ \A k \in DOMAIN c.schedule :
                  LET on == all_events[c.first_event + 2 * k - 1]
                      off == all_events[c.first_event + 2 * k]
                  IN  /\ on.transition = "ON"
                      /\ on.offset = c.starting_time + c.schedule[k].key
                      /\ off.transition = "OFF"
                      /\ off.offset = on.offset + c.schedule[k].val.dur - 1


\* C32 (as stated; the code violates it): the events of a committed instance
\* begin with its ACTIVITY START, which is appended before its ACTIVITY END,
\* and the END offset is not smaller than the START offset
C32_StartBeforeEnd ==
    \A i \in DOMAIN committed :
        LET c == committed[i] IN
        Complete(c) =>
            /\ c.first_event < c.last_event
            /\ all_events[c.first_event].transition = "START"
            /\ all_events[c.first_event].offset = c.starting_time
            /\ all_events[c.first_event].offset <= all_events[c.last_event].offset


\* C33 (as stated; the code violates it): every event appended during a run
\* carries an offset in [0, horizon), horizon = days x 86400 being the number
\* of timestamps of the trace
C33_EventOffsetsInsideHorizon ==
    \A k \in DOMAIN all_events :
        all_events[k].offset \in 0..(horizon - 1)


(* ----------------------- claims on the power arrays ---------------------- *)
UserNames == {users[u].name : u \in DOMAIN users}
ActivityTypes ==
    UNION {{users[u].activities[a].activity_type : a \in DOMAIN users[u].activities} :
              u \in DOMAIN users}
ApplianceTypes == DOMAIN appliances

\* no two users, no two activities of a user and no two kinds of array share a
\* name
DistinctNames ==
    /\ \A u, v \in DOMAIN users : users[u].name = users[v].name => u = v
    /\ \A u \in DOMAIN users : \A a, b \in DOMAIN users[u].activities :
          users[u].activities[a].activity_type = users[u].activities[b].activity_type
              => a = b
    /\ "total" \notin UserNames \cup ActivityTypes \cup ApplianceTypes
    /\ UserNames \cap ActivityTypes = {}
    /\ UserNames \cap ApplianceTypes = {}
    /\ ActivityTypes \cap ApplianceTypes = {}

\* the sum of the arrays all_powers holds under the keys K
RECURSIVE SumOf(_)
SumOf(K) ==
    IF K = {} THEN Filled(horizon, 0)
    ELSE LET k == CHOOSE x \in K : TRUE
         IN  ArrayAdd(all_powers[k], SumOf(K \ {k}))

\* the number of operations of the instances committed before instance i
RECURSIVE OpsBefore(_)
OpsBefore(i) ==
    IF i <= 1 THEN 0 ELSE OpsBefore(i - 1) + Len(committed[i - 1].schedule)

\* the operations of the instances committed by the activities of user u
UserOps(u) ==
    {k \in DOMAIN ops :
        \E i \in DOMAIN committed :
            /\ committed[i].uid = u
            /\ k \in (OpsBefore(i) + 1)..(OpsBefore(i) + Len(committed[i].schedule))}

\* order lists every activity of the user being synthesized exactly once
DispatchedOnce ==
    /\ Len(order) = Cardinality(DOMAIN users[uid].activities)
    /\ \A a \in DOMAIN users[uid].activities :
          Cardinality({k \in DOMAIN order : order[k] = a}) = 1

\* C34: after a run with distinct user, activity and appliance names the total
\* array is the sum of the per-user arrays, of the per-activity arrays and of
\* the per-appliance arrays, each user's array is the sum of the waveforms of
\* the operations that user's activities committed, and while a user is
\* synthesized the shuffled order holds each of the user's activities once
C34_TotalsAgree ==
    /\ (pc = "done" /\ DistinctNames) =>
          /\ all_powers["total"] = SumOf(UserNames)
          /\ all_powers["total"] = SumOf(ActivityTypes \cap DOMAIN all_powers)
          /\ all_powers["total"] = SumOf(ApplianceTypes)
          /\ \A u \in DOMAIN users : all_powers[users[u].name] = Added(1, UserOps(u))
    /\ pc \in {"user", "day", "attempt", "dayend", "return"} => DispatchedOnce

\* two users with distinct names have each committed an operation that drew
\* power, and the run is over
C34_Witness ==
    /\ pc = "done"
    /\ DistinctNames
    /\ Len(users) = 2
    /\ \A u \in DOMAIN users : \E k \in UserOps(u) : ops[k].duration >= 1
    /\ \E x \in 0..(horizon - 1) : all_powers["total"][x] > 0


\* the seconds [offset, offset + duration) of an operation
OpWindow(op) == op.offset..(op.offset + op.duration - 1)

\* C35 (as stated; the code violates it): no two operations of one appliance
\* overlap, whichever users, activities and instances started them
C35_NoOverlappingOperations ==
    \A j, k \in DOMAIN ops :
        (j < k /\ ops[j].app = ops[k].app) => OpWindow(ops[j]) \cap OpWindow(ops[k]) = {}


(* ------------------- claims on the appliance operation ------------------ *)
\* the sample count of component i of the operation: round(fraction x duration)
Samples(op, i) == RoundHalfEven(op.comps[i].dur * op.duration, FracDen)

\* component i is rendered: its sample count is neither <= 0 nor above a day
Rendered(op, i) == Samples(op, i) >= 1 /\ Samples(op, i) <= secs_per_day

\* where component i starts, from the operation offset: after the samples of
\* the rendered components before it
RECURSIVE StartOf(_, _)
StartOf(op, i) ==
    IF i <= 1 THEN 0
    ELSE StartOf(op, i - 1) + (IF Rendered(op, i - 1) THEN Samples(op, i - 1) ELSE 0)

\* the rendered components of the operation whose samples cover second x
Covering(op, x) ==
    {i \in DOMAIN op.comps :
        /\ Rendered(op, i)
        /\ x \in (op.offset + StartOf(op, i))..(op.offset + StartOf(op, i) + Samples(op, i) - 1)}

\* C36: an operation that returns has rendered its components in list order and
\* back-to-back from its offset, component i with round(f x D) samples from
\* where the rendered component before it ended; a component with a sample
\* count <= 0 or above a day wrote nothing and did not move the next start
C36_ComponentsBackToBack ==
    \A k \in DOMAIN ops :
        LET op == ops[k] IN
        \A x \in 0..(horizon - 1) :
            /\ Cardinality(Covering(op, x)) <= 1
            /\ Covering(op, x) = {} => op.power[x] = 0
            /\ \A i \in Covering(op, x) :
                  IF op.comps[i].type = "ON_OFF"
                  THEN op.power[x] = op.comps[i].on
                  ELSE op.power[x] \in op.comps[i].low..op.comps[i].high

\* every component of the operation's appliance is an on/off component
AllOnOff(op) == \A i \in DOMAIN op.comps : op.comps[i].type = "ON_OFF"

\* an operation inside the horizon has skipped a component too long to render
\* and rendered the two that follow one after the other from its offset
C36_Witness ==
    \E k \in DOMAIN ops :
        /\ Len(ops[k].comps) = 3 /\ AllOnOff(ops[k])
        /\ Samples(ops[k], 1) > secs_per_day
        /\ Rendered(ops[k], 2) /\ Rendered(ops[k], 3)
        /\ ops[k].offset + Samples(ops[k], 2) + Samples(ops[k], 3) <= horizon
        /\ ops[k].power[ops[k].offset] = ops[k].comps[2].on
        /\ ops[k].power[ops[k].offset + Samples(ops[k], 2)] = ops[k].comps[3].on
        /\ ops[k].comps[2].on # ops[k].comps[3].on

\* C37 (as stated; the code violates it): whatever the fractions are, no
\* operation fails, and an operation invoked with (offset, duration) changes
\* power samples only inside [offset, offset + duration) and inside the horizon
C37_OperationStaysInsideItsWindow ==
    /\ error = "none"
    /\ \A k \in DOMAIN ops :
          /\ DOMAIN ops[k].power = 0..(horizon - 1)
          /\ \A x \in 0..(horizon - 1) :
                ops[k].power[x] # 0 => x \in OpWindow(ops[k])


(* ------------------- claims on the appliance variation ------------------ *)
\* the appliance types bound to the activity
BoundTo(self) == {t \in DOMAIN self.appliance_binding : self.appliance_binding[t]}

\* C38: a step changes the active definition (component list and usual
\* duration, those of the model file picked) of an appliance only when
\* variation is requested, the step is a pass of the scheduler's loop and the
\* appliance is bound to the activity of the pass; the definition then comes
\* from the appliance's own folder and is in force before the interpreter
\* runs: a state that runs an appliance for its usual duration records the
\* usual duration of the new definition, and every operation of the pass
\* renders the components of the new definition
C38_DefinitionPersistsUnlessVaried ==
    [][/\ \A t \in DOMAIN appliances :
             /\ appliances'[t].models = appliances[t].models
             /\ appliances'[t].model \in 1..Len(appliances[t].models)
             /\ appliances'[t].model # appliances[t].model =>
                   /\ run.vary_runs
                   /\ pc = "attempt"
                   /\ t \in BoundTo(users[uid].activities[order[ai]])
       /\ \A k \in (Len(ops) + 1)..Len(ops') :
             ops'[k].comps = comps(appliances'[ops'[k].app])
       /\ \A i \in (Len(committed) + 1)..Len(committed') :
             LET self == users[uid].activities[committed'[i].name]
                 cmd == self.state_machine[0]
             IN  (DOMAIN self.state_machine = {0} /\ cmd.mn = 0 /\ cmd.mx = 0) =>
                     \A e \in DOMAIN committed'[i].schedule :
                         committed'[i].schedule[e].val.dur =
                             usual_duration(appliances'[committed'[i].schedule[e].val.app])
      ]_vars

\* variation is requested and one appliance has been operated under two
\* definitions of different usual durations
C38_Witness ==
    /\ run.vary_runs
    /\ \E j, k \in DOMAIN ops :
          /\ ops[j].app = ops[k].app
          /\ ops[j].comps # ops[k].comps
          /\ ops[j].duration # ops[k].duration


(* ----------------------- claims on the noise component ------------------ *)
\* C39 (as stated; the code violates it): for every configured (low, mean,
\* stdev, high) and every length asked for, synthesize returns, and what it
\* returns is that many samples, each in [low, high]
C39_NoiseReturnsInBounds ==
    /\ [](Returned("synthesize") =>
             /\ Size(t_ret) = t_arg.length
             /\ \A x \in DOMAIN t_ret :
                   t_arg.self.low <= t_ret[x] /\ t_ret[x] <= t_arg.self.high)
    /\ (t_pc = "call" /\ t_fn = "synthesize") ~> Returned("synthesize")

====
